---------------------------- MODULE Spec2Model ----------------------------
(***************************************************************************)
(* A model of the voter-roll extraction pipeline:                          *)
(*   voter_data_extractor.py  grid detection, span classification, card    *)
(*                            building and the per-page document loop;     *)
(*   scracth2.py              the partition of the master document's pages *)
(*                            into collective files.                       *)
(*                                                                         *)
(* Coordinates are floats in the program.  They are modelled in fixed      *)
(* point: a coordinate is an integer number of 1/Unit points.  Values the  *)
(* program holds as Python ints (the rounded cluster keys, hence the cell  *)
(* boxes) are kept in whole points and converted with Pt where the code    *)
(* compares them with floats.                                              *)
(***************************************************************************)
EXTENDS Integers, Sequences, FiniteSets, TLC

\* ------------------------------------------------------------------ bounds
\* fixed-point resolution: units per point
Unit == 4
\* grid lines of a drawn layout (horizontal, vertical)
MaxH == 3
MaxV == 3
\* stray drawing objects added to a layout
MaxExtra == 2
\* text blocks on a richly filled page
MaxBlocks == 3
\* pages of a multi-page document
MaxPages == 2

\* ----------------------------------------------------- program constants
FooterMinWidth == 500
GridMinWidth == 100
GridMaxWidth == 200
GridMinHeight == 50
CellTolerance == 2
MinSpansPerCard == 3
EpicLetters == 3
EpicDigits == 7

\* ------------------------------------------------------------- helpers
\* an int of the program as a fixed-point float
Pt(n) == n * Unit

\* min() and max() of a non-empty sequence of numbers
SeqMin(s) == CHOOSE m \in {s[i] : i \in DOMAIN s} : \A j \in DOMAIN s : m <= s[j]

SeqMax(s) == CHOOSE m \in {s[i] : i \in DOMAIN s} : \A j \in DOMAIN s : m >= s[j]

RECURSIVE Concat(_)
Concat(ss) == IF ss = <<>> THEN <<>> ELSE Head(ss) \o Concat(Tail(ss))

RECURSIVE SumSeq(_)
SumSeq(s) == IF s = <<>> THEN 0 ELSE Head(s) + SumSeq(Tail(s))

Range(s) == {s[i] : i \in DOMAIN s}

\* the order of two sort keys, each a number or a pair of numbers
KeyLess(a, b) == a[1] < b[1] \/ (a[1] = b[1] /\ Len(a) > 1 /\ a[2] < b[2])

\* a sort that puts elements with an equal key in the reverse of their order
StableSortTiesReversed(s, keys) ==
  LET n == Len(s)
      before(i) == {j \in 1..n : KeyLess(keys[j], keys[i])
                                  \/ (~KeyLess(keys[i], keys[j]) /\ j > i)}
  IN [k \in 1..n |-> s[CHOOSE i \in 1..n : Cardinality(before(i)) = k - 1]]

\* Python's list.sort / sorted: stable, ascending by the elements' keys.
\* An element comes after those with a smaller key and after the earlier
\* elements with an equal key.
StableSort(s, keys) ==
  LET n == Len(s)
      before(i) == {j \in 1..n : KeyLess(keys[j], keys[i])
                                  \/ (~KeyLess(keys[i], keys[j]) /\ j < i)}
  IN [k \in 1..n |-> s[CHOOSE i \in 1..n : Cardinality(before(i)) = k - 1]]

\* Python's round() of a float to an int: to nearest, ties to the even int.
PyRound(v) ==
  LET f == v \div Unit
      r == v % Unit
  IN IF 2 * r < Unit THEN f
     ELSE IF 2 * r > Unit THEN f + 1
     ELSE IF f % 2 = 0 THEN f ELSE f + 1

\* ------------------------------------------- detect_grid_from_rectangles
\* width, height and area of a drawing's bounding rectangle
RectData(rect) ==
  LET width == rect.x1 - rect.x0
      height == rect.y1 - rect.y0
  IN [x0 |-> rect.x0, y0 |-> rect.y0, x1 |-> rect.x1, y1 |-> rect.y1,
      width |-> width, height |-> height, area |-> width * height]

IsHorizontal(rect) == rect.area = 0 /\ rect.width > 0 /\ rect.height = 0
IsVertical(rect) ==
  rect.area = 0 /\ ~(rect.width > 0 /\ rect.height = 0)
    /\ rect.width = 0 /\ rect.height > 0

HorizontalLines(rectangles) ==
  LET hs == SelectSeq(rectangles, IsHorizontal)
  IN [i \in DOMAIN hs |->
        [y |-> hs[i].y0, x0 |-> hs[i].x0, x1 |-> hs[i].x1, width |-> hs[i].width]]

VerticalLines(rectangles) ==
  LET vs == SelectSeq(rectangles, IsVertical)
  IN [i \in DOMAIN vs |->
        [x |-> vs[i].x0, y0 |-> vs[i].y0, y1 |-> vs[i].y1, height |-> vs[i].height]]

\* key=lambda l: l['y'] and key=lambda l: l['x']
KeysY(lines) == [i \in DOMAIN lines |-> <<lines[i].y>>]
KeysX(lines) == [i \in DOMAIN lines |-> <<lines[i].x>>]

SortedHorizontal(rectangles) ==
  StableSort(HorizontalLines(rectangles), KeysY(HorizontalLines(rectangles)))

\* the footer separator is popped when the last line by y is wider than 500
HasFooterSeparator(sorted) ==
  sorted # <<>> /\ sorted[Len(sorted)].width > Pt(FooterMinWidth)

NoSeparator == [none |-> TRUE]

FooterSeparatorOfFirst(sorted) ==
  IF HasFooterSeparator(sorted) THEN sorted[1] ELSE NoSeparator

FooterSeparatorOf(sorted) ==
  IF HasFooterSeparator(sorted) THEN sorted[Len(sorted)] ELSE NoSeparator

AfterFooterPop(sorted) ==
  IF HasFooterSeparator(sorted) THEN SubSeq(sorted, 1, Len(sorted) - 1) ELSE sorted

\* a band without its upper end
InGridWidthBandOpen(line) == Pt(GridMinWidth) < line.width

InGridWidthBand(line) ==
  Pt(GridMinWidth) < line.width /\ line.width < Pt(GridMaxWidth)

InGridHeightBandWide(line) == line.height > Pt(GridMinWidth)

InGridHeightBand(line) == line.height > Pt(GridMinHeight)

\* a defaultdict(list) filled in iteration order: the keys in first-insertion
\* order, each with the lines appended to it
RECURSIVE Cluster(_, _, _)
Cluster(lines, keys, acc) ==
  IF lines = <<>> THEN acc
  ELSE LET l == Head(lines)
           k == Head(keys)
           at == {i \in DOMAIN acc : acc[i].key = k}
           next == IF at = {}
                   THEN Append(acc, [key |-> k, lines |-> <<l>>])
                   ELSE LET i == CHOOSE i \in at : TRUE
                        IN [acc EXCEPT ![i].lines = Append(@, l)]
       IN Cluster(Tail(lines), Tail(keys), next)

KeyY(line) == PyRound(line.y)
KeyX(line) == PyRound(line.x)

HorizontalClusters(lines) ==
  LET kept == SelectSeq(lines, InGridWidthBand)
  IN Cluster(kept, [i \in DOMAIN kept |-> KeyY(kept[i])], <<>>)

VerticalClusters(lines) ==
  LET kept == SelectSeq(lines, InGridHeightBand)
  IN Cluster(kept, [i \in DOMAIN kept |-> KeyX(kept[i])], <<>>)

GetX0(lines) == [i \in DOMAIN lines |-> lines[i].x0]
GetX1(lines) == [i \in DOMAIN lines |-> lines[i].x1]
GetY0(lines) == [i \in DOMAIN lines |-> lines[i].y0]
GetY1(lines) == [i \in DOMAIN lines |-> lines[i].y1]

MainHorizontal(lines) ==
  LET cs == HorizontalClusters(lines)
      unsorted == [i \in DOMAIN cs |->
                     [y |-> cs[i].key,
                      x0 |-> SeqMin(GetX0(cs[i].lines)),
                      x1 |-> SeqMax(GetX1(cs[i].lines))]]
  IN StableSort(unsorted, KeysY(unsorted))

\* the vertical grid lines in the order their clusters were made
MainVerticalUnsorted(lines) ==
  LET cs == VerticalClusters(lines)
  IN [i \in DOMAIN cs |->
        [x |-> cs[i].key,
         y0 |-> SeqMin(GetY0(cs[i].lines)),
         y1 |-> SeqMax(GetY1(cs[i].lines))]]

MainVertical(lines) ==
  LET cs == VerticalClusters(lines)
      unsorted == [i \in DOMAIN cs |->
                     [x |-> cs[i].key,
                      y0 |-> SeqMin(GetY0(cs[i].lines)),
                      y1 |-> SeqMax(GetY1(cs[i].lines))]]
  IN StableSort(unsorted, KeysX(unsorted))

CellIdSwapped(row, col, rows, columns) == row * rows + col

CellId(row, col, rows, columns) == row * columns + col

\* cells that carry the column as their row and the row as their col
GridRowTransposed(row, rows, columns, main_horizontal, main_vertical) ==
  [c \in 1..columns |->
     [cell_id |-> CellId(row, c - 1, rows, columns),
      bbox |-> <<main_vertical[c].x, main_horizontal[row + 1].y,
                 main_vertical[c + 1].x, main_horizontal[row + 2].y>>,
      row |-> c,
      col |-> row + 1]]

\* the cells appended by the inner loop for one row (row, col are 0-based)
GridRow(row, rows, columns, main_horizontal, main_vertical) ==
  [c \in 1..columns |->
     [cell_id |-> CellId(row, c - 1, rows, columns),
      bbox |-> <<main_vertical[c].x, main_horizontal[row + 1].y,
                 main_vertical[c + 1].x, main_horizontal[row + 2].y>>,
      row |-> row + 1,
      col |-> c]]

EnoughLines(main_horizontal, main_vertical) ==
  Len(main_horizontal) >= 2 /\ Len(main_vertical) >= 2

AllGridCells(main_horizontal, main_vertical) ==
  IF EnoughLines(main_horizontal, main_vertical)
  THEN LET rows == Len(main_horizontal) - 1
           columns == Len(main_vertical) - 1
       IN Concat([r \in 1..rows |->
                    GridRow(r - 1, rows, columns, main_horizontal, main_vertical)])
  ELSE <<>>

detect_grid_from_rectangles(rectangles) ==
  LET sorted == SortedHorizontal(rectangles)
      horizontal_lines == AfterFooterPop(sorted)
      vertical_lines == VerticalLines(rectangles)
      main_horizontal == MainHorizontal(horizontal_lines)
      main_vertical == MainVertical(vertical_lines)
  IN [all_grid_cells |-> AllGridCells(main_horizontal, main_vertical),
      main_horizontal |-> main_horizontal,
      main_vertical |-> main_vertical,
      footer_separator |-> FooterSeparatorOf(sorted)]

\* ------------------------------------------------------------------ text
\* A text is a sequence of characters; the classes are those of Python's re
\* on str patterns and of str.strip().
UpperChars == {"A", "B", "C", "X"}
AsciiDigits == {"0", "1", "2", "3", "4", "5", "6", "7"}
\* a decimal digit outside ASCII (a Devanagari digit): \d matches it
OtherDigits == {"dev1"}
\* the space, and a whitespace character outside ASCII
SpaceChars == {" ", "nbsp"}
DecimalDigits == AsciiDigits \cup OtherDigits
IsUpper(c) == c \in UpperChars
IsDigit(c) == c \in DecimalDigits
IsSpace(c) == c \in SpaceChars
IsSlash(c) == c = "/"

None == <<"None">>

\* str.strip(): leading and trailing whitespace removed
Strip(text) ==
  LET solid == {i \in DOMAIN text : ~IsSpace(text[i])}
  IN IF solid = {} THEN <<>>
     ELSE LET lo == CHOOSE i \in solid : \A j \in solid : i <= j
              hi == CHOOSE i \in solid : \A j \in solid : i >= j
          IN SubSeq(text, lo, hi)

\* ' '.join(texts)
RECURSIVE JoinSpace(_)
JoinSpace(texts) ==
  IF texts = <<>> THEN <<>>
  ELSE IF Len(texts) = 1 THEN texts[1]
  ELSE texts[1] \o <<" ">> \o JoinSpace(Tail(texts))

\* the end (exclusive) of the longest run of characters of a class from i
RunEnd(text, i, class) ==
  CHOOSE j \in i..(Len(text) + 1) :
    /\ \A k \in i..(j - 1) : text[k] \in class
    /\ (j = Len(text) + 1 \/ text[j] \notin class)

\* \d+ from i: the index after the digits, or 0 when there is none (or i is 0)
AfterDigits(text, i) ==
  IF i = 0 THEN 0
  ELSE LET j == RunEnd(text, i, DecimalDigits) IN IF j > i THEN j ELSE 0

\* "/" at i: the index after it, or 0
AfterSlash(text, i) ==
  IF i # 0 /\ i <= Len(text) /\ IsSlash(text[i]) THEN i + 1 ELSE 0

\* \d+/\d+/\d+ from i: the index after the match, or 0.  Every repetition is
\* greedy and is followed by a character of another class, so the greedy
\* choice decides the match.
PartEnd(text, i) ==
  AfterDigits(text, AfterSlash(text, AfterDigits(text, AfterSlash(text,
    AfterDigits(text, i)))))

\* [A-Z]{3}\d{7} at i
EpicAt(text, i) ==
  /\ i + EpicLetters + EpicDigits - 1 <= Len(text)
  /\ \A k \in i..(i + EpicLetters - 1) : IsUpper(text[k])
  /\ \A k \in (i + EpicLetters)..(i + EpicLetters + EpicDigits - 1) : IsDigit(text[k])

\* \s+ after an EPIC at i: the index after the whitespace, or 0 when there is none
PartStart(text, i) ==
  LET e == i + EpicLetters + EpicDigits
      j == RunEnd(text, e, SpaceChars)
  IN IF j > e THEN j ELSE 0

\* ([A-Z]{3}\d{7})\s+(\d+/\d+/\d+) matches at i
MatchAt(text, i) == EpicAt(text, i) /\ PartEnd(text, PartStart(text, i)) # 0

\* re.search: the leftmost match and its two groups
extract_epic_part(text) ==
  LET starts == {i \in DOMAIN text : MatchAt(text, i)}
  IN IF starts = {} THEN [epic |-> None, part |-> None]
     ELSE LET i == CHOOSE i \in starts : \A j \in starts : i <= j
              from == PartStart(text, i)
          IN [epic |-> SubSeq(text, i, i + EpicLetters + EpicDigits - 1),
              part |-> SubSeq(text, from, PartEnd(text, from) - 1)]

\* ---------------------------------------------------- classify_text_spans
\* one span of the page's text dict as the extractor records it
SpanData(span) ==
  [text |-> Strip(span.text),
   x0 |-> span.bbox[1], y0 |-> span.bbox[2],
   x1 |-> span.bbox[3], y1 |-> span.bbox[4],
   center_x |-> (span.bbox[1] + span.bbox[3]) \div 2,
   center_y |-> (span.bbox[2] + span.bbox[4]) \div 2]

\* blocks -> lines -> spans, in order, spans with empty stripped text skipped
AllTextSpans(blocks) ==
  LET raw == Concat([b \in DOMAIN blocks |-> Concat(blocks[b])])
      data == [i \in DOMAIN raw |-> SpanData(raw[i])]
  IN SelectSeq(data, LAMBDA sp : sp.text # <<>>)

InCell(span, cell) ==
  /\ Pt(cell.bbox[1] - CellTolerance) <= span.center_x
  /\ span.center_x <= Pt(cell.bbox[3] + CellTolerance)
  /\ Pt(cell.bbox[2] - CellTolerance) <= span.center_y
  /\ span.center_y <= Pt(cell.bbox[4] + CellTolerance)

FirstCellFromEnd(span, cells) ==
  LET hits == {i \in DOMAIN cells : InCell(span, cells[i])}
  IN IF hits = {} THEN 0 ELSE CHOOSE i \in hits : \A j \in hits : i >= j

\* the index of the first cell of the list that contains the span, or 0
FirstCell(span, cells) ==
  LET hits == {i \in DOMAIN cells : InCell(span, cells[i])}
  IN IF hits = {} THEN 0 ELSE CHOOSE i \in hits : \A j \in hits : i <= j

\* card_assignments[cell_id].append(span) on a defaultdict(list)
AppendTo(card_assignments, cell_id, span) ==
  IF cell_id \in DOMAIN card_assignments
  THEN [card_assignments EXCEPT ![cell_id] = Append(@, span)]
  ELSE [k \in DOMAIN card_assignments \cup {cell_id} |->
          IF k = cell_id THEN <<span>> ELSE card_assignments[k]]

ClassifyOneDropping(span, cells, first_card_top, last_card_bottom, acc) ==
  LET hit == FirstCell(span, cells)
  IN IF hit # 0
     THEN [acc EXCEPT !.card_assignments = AppendTo(@, cells[hit].cell_id, span)]
     ELSE IF span.y1 < Pt(first_card_top)
     THEN [acc EXCEPT !.header_spans = Append(@, span)]
     ELSE IF span.y0 > Pt(last_card_bottom)
     THEN [acc EXCEPT !.footer_spans = Append(@, span)]
     ELSE acc

ClassifyOneInclusive(span, cells, first_card_top, last_card_bottom, acc) ==
  LET hit == FirstCell(span, cells)
  IN IF hit # 0
     THEN [acc EXCEPT !.card_assignments = AppendTo(@, cells[hit].cell_id, span)]
     ELSE IF span.y1 <= Pt(first_card_top)
     THEN [acc EXCEPT !.header_spans = Append(@, span)]
     ELSE IF span.y0 >= Pt(last_card_bottom)
     THEN [acc EXCEPT !.footer_spans = Append(@, span)]
     ELSE [acc EXCEPT !.unassigned_spans = Append(@, span)]

\* the body of the loop over the spans
ClassifyOne(span, cells, first_card_top, last_card_bottom, acc) ==
  LET hit == FirstCell(span, cells)
  IN IF hit # 0
     THEN [acc EXCEPT !.card_assignments = AppendTo(@, cells[hit].cell_id, span)]
     ELSE IF span.y1 < Pt(first_card_top)
     THEN [acc EXCEPT !.header_spans = Append(@, span)]
     ELSE IF span.y0 > Pt(last_card_bottom)
     THEN [acc EXCEPT !.footer_spans = Append(@, span)]
     ELSE [acc EXCEPT !.unassigned_spans = Append(@, span)]

RECURSIVE ClassifyLoop(_, _, _, _, _)
ClassifyLoop(spans, cells, first_card_top, last_card_bottom, acc) ==
  IF spans = <<>> THEN acc
  ELSE ClassifyLoop(Tail(spans), cells, first_card_top, last_card_bottom,
                    ClassifyOne(Head(spans), cells, first_card_top,
                                last_card_bottom, acc))

NoGridResultFooter(all_text_spans) ==
  [header_spans |-> <<>>, footer_spans |-> all_text_spans,
   unassigned_spans |-> <<>>, card_assignments |-> <<>>]

NoGridResult(all_text_spans) ==
  [header_spans |-> all_text_spans, footer_spans |-> <<>>,
   unassigned_spans |-> <<>>, card_assignments |-> <<>>]

classify_text_spans(all_text_spans, grid_data) ==
  LET cells == grid_data.all_grid_cells
  IN IF cells = <<>> THEN NoGridResult(all_text_spans)
     ELSE ClassifyLoop(all_text_spans, cells,
                       cells[1].bbox[2], cells[Len(cells)].bbox[4],
                       [header_spans |-> <<>>, footer_spans |-> <<>>,
                        unassigned_spans |-> <<>>, card_assignments |-> <<>>])

\* ------------------------------------------------------ create_final_cards
\* card_assignments.get(cell_id, [])
SpansInCell(card_assignments, cell_id) ==
  IF cell_id \in DOMAIN card_assignments THEN card_assignments[cell_id] ELSE <<>>

\* key=lambda x: (x['y0'], x['x0'])
KeysReading(spans) == [i \in DOMAIN spans |-> <<spans[i].y0, spans[i].x0>>]

HasSignificantContentAbove(spans_in_cell) == Len(spans_in_cell) > MinSpansPerCard

HasSignificantContent(spans_in_cell) == Len(spans_in_cell) >= MinSpansPerCard

CardNumberByCell(final_cards, cell) == cell.cell_id + 1

CardNumber(final_cards, cell) == Len(final_cards) + 1

CardOf(cell, spans_in_cell, final_cards) ==
  LET spans_sorted == StableSort(spans_in_cell, KeysReading(spans_in_cell))
      raw_texts == [i \in DOMAIN spans_sorted |-> spans_sorted[i].text]
      found == extract_epic_part(JoinSpace(raw_texts))
  IN [card_number |-> CardNumber(final_cards, cell),
      bbox |-> cell.bbox,
      row |-> cell.row,
      col |-> cell.col,
      raw_content |-> raw_texts,
      epic_number |-> found.epic,
      part_number |-> found.part,
      text_spans_count |-> Len(spans_in_cell)]

RECURSIVE CardsLoopNeedingIdentifier(_, _, _)
CardsLoopNeedingIdentifier(cells, card_assignments, final_cards) ==
  IF cells = <<>> THEN final_cards
  ELSE LET cell == Head(cells)
           spans_in_cell == SpansInCell(card_assignments, cell.cell_id)
       IN CardsLoopNeedingIdentifier(Tail(cells), card_assignments,
            IF /\ HasSignificantContent(spans_in_cell)
               /\ CardOf(cell, spans_in_cell, final_cards).epic_number # None
            THEN Append(final_cards, CardOf(cell, spans_in_cell, final_cards))
            ELSE final_cards)

\* the loop over the cells
RECURSIVE CardsLoop(_, _, _)
CardsLoop(cells, card_assignments, final_cards) ==
  IF cells = <<>> THEN final_cards
  ELSE LET cell == Head(cells)
           spans_in_cell == SpansInCell(card_assignments, cell.cell_id)
       IN CardsLoop(Tail(cells), card_assignments,
                    IF HasSignificantContent(spans_in_cell)
                    THEN Append(final_cards, CardOf(cell, spans_in_cell, final_cards))
                    ELSE final_cards)

create_final_cards(card_assignments, all_grid_cells) ==
  CardsLoop(all_grid_cells, card_assignments, <<>>)

Texts(spans) == [i \in DOMAIN spans |-> spans[i].text]

PageDataNoUnassigned(page_num, classification_result, final_cards) ==
  [page_number |-> page_num,
   header |-> Texts(classification_result.header_spans),
   footer |-> Texts(classification_result.footer_spans),
   cards |-> final_cards,
   total_cards |-> Len(final_cards),
   unassigned_spans |-> <<>>]

\* the page record returned by extract_complete_page_data
PageData(page_num, classification_result, final_cards) ==
  [page_number |-> page_num,
   header |-> Texts(classification_result.header_spans),
   footer |-> Texts(classification_result.footer_spans),
   cards |-> final_cards,
   total_cards |-> Len(final_cards),
   unassigned_spans |-> Texts(classification_result.unassigned_spans)]

\* ------------------------------------------------------------- str / int
DigitChars == <<"0", "1", "2", "3", "4", "5", "6", "7", "8", "9">>

\* str(n) of a non-negative int: its decimal digits
RECURSIVE Str(_)
Str(n) ==
  IF n < 10 THEN <<DigitChars[n + 1]>>
  ELSE Str(n \div 10) \o <<DigitChars[(n % 10) + 1]>>

DigitValue(c) == (CHOOSE i \in DOMAIN DigitChars : DigitChars[i] = c) - 1

\* int(s) of a string of decimal digits
RECURSIVE IntOf(_)
IntOf(s) ==
  IF Len(s) = 1 THEN DigitValue(s[1])
  ELSE 10 * IntOf(SubSeq(s, 1, Len(s) - 1)) + DigitValue(s[Len(s)])

\* d[k] = v on a dict
DictSet(d, k, v) == [x \in DOMAIN d \cup {k} |-> IF x = k THEN v ELSE d[x]]

\* ------------------------------------------------------- the input pages
\* A drawn layout: h horizontal card separators and v vertical risers, listed
\* bottom-up and right-to-left as a content stream may list them.
YLine(i) == 100 + 186 * (i - 1)
XLine(j) == 50 + 70 * (j - 1)

Rect(x0, y0, x1, y1) == [x0 |-> x0, y0 |-> y0, x1 |-> x1, y1 |-> y1]

HSegment(i) == Rect(Pt(50), Pt(YLine(i)), Pt(200), Pt(YLine(i)))
VSegment(j) == Rect(Pt(XLine(j)), Pt(100), Pt(XLine(j)), Pt(180))

Layout(h, v) ==
  [i \in 1..h |-> HSegment(h + 1 - i)] \o [j \in 1..v |-> VSegment(v + 1 - j)]

\* stray drawing objects
ExtraRects ==
  << Rect(Pt(55), Pt(105), Pt(75), Pt(130)),                  \* a photo frame
    Rect(Pt(20), Pt(700), Pt(575), Pt(700)),                 \* the footer rule
    Rect(Pt(10), Pt(40), Pt(590), Pt(40)),                   \* a longer rule on top
    Rect(Pt(20), Pt(286), Pt(575), Pt(286)),                 \* a long rule on a separator
    Rect(Pt(50), Pt(193), Pt(100), Pt(193)),                 \* a short dash
    Rect(Pt(50), Pt(193), Pt(250), Pt(193)),                 \* width exactly 200
    Rect(Pt(60), Pt(100) + Unit \div 2, Pt(215), Pt(100) + Unit \div 2),
    Rect(Pt(40), Pt(193), Pt(190), Pt(193)),                 \* one more separator
    Rect(Pt(50), Pt(750), Pt(200), Pt(750)),                 \* a separator below the rule
    Rect(Pt(85), Pt(100), Pt(85), Pt(130)),                  \* a short tick
    Rect(Pt(120) + 1, Pt(90), Pt(120) + 1, Pt(300)),         \* a riser drawn twice
    Rect(Pt(85), Pt(100), Pt(85), Pt(100)) >>                \* a dot

SeqsUpTo(S, n) == UNION {[1..k -> S] : k \in 0..n}

\* a layout with some of the stray objects drawn before it or after it
RECURSIVE InOrder(_)
InOrder(S) ==
  IF S = {} THEN <<>>
  ELSE LET m == CHOOSE i \in S : \A j \in S : i <= j
       IN <<m>> \o InOrder(S \ {m})

DrawnPage(h, v, extras, before) ==
  LET chosen == InOrder(extras)
      e == [i \in DOMAIN chosen |-> ExtraRects[chosen[i]]]
  IN IF before THEN e \o Layout(h, v) ELSE Layout(h, v) \o e

\* text
T_EPIC == <<"A", "B", "C", "1", "2", "3", "4", "5", "6", "7">>
T_PART == <<"1", "2", "/", "3", "/", "4">>
T_NAME == <<"n", "o">>
T_HOUSE == <<"h", " ", "7">>
T_BLANK == <<" ", "nbsp">>

\* a span of the text dict: text and bbox, 10 wide and 8 high around its center
SpanAt(text, cx, cy) ==
  [text |-> text, bbox |-> <<Pt(cx - 5), Pt(cy - 4), Pt(cx + 5), Pt(cy + 4)>>]

\* text blocks, each a list of lines, each a list of spans
BlockCard11 ==
  << <<SpanAt(T_PART, 60, 160), SpanAt(<<" ">> \o T_EPIC, 60, 150)>>,
     <<SpanAt(T_NAME, 60, 170)>> >>
BlockPair12 == << <<SpanAt(T_NAME, 160, 150), SpanAt(T_HOUSE, 140, 150)>> >>
BlockCard21 ==
  << <<SpanAt(T_NAME, 60, 320)>>,
     <<SpanAt(T_EPIC, 60, 300), SpanAt(T_HOUSE, 60, 310)>> >>
BlockMargins ==
  << <<SpanAt(T_HOUSE, 60, 50), SpanAt(T_BLANK, 60, 60)>>,
     <<SpanAt(T_NAME, 60, 900)>> >>
BlockOutside == << <<SpanAt(T_NAME, 200, 150)>> >>
BlockBorder == << <<SpanAt(T_PART, 121, 150)>> >>

TextBlocks ==
  <<BlockCard11, BlockPair12, BlockCard21, BlockMargins, BlockOutside, BlockBorder>>

\* the texts a card's three spans may carry: an EPIC, a part number, a name,
\* an EPIC ending in a Devanagari digit, an EPIC and a part number joined by a
\* no-break space, an EPIC short of a letter, a part number with a Devanagari
\* digit, and an EPIC after a fourth letter with a part number of four groups
T_EPIC_DEV == <<"A", "B", "C", "1", "2", "3", "4", "5", "6", "dev1">>
T_BOTH == T_EPIC \o <<"nbsp">> \o T_PART
T_SHORT == <<"A", "B", "1", "2", "3", "4", "5", "6", "7">>
T_PART_DEV == <<"dev1", "/", "3", "/", "4">>
T_LONG == <<"X">> \o T_EPIC \o <<" ", " ">> \o T_PART \o <<"/", "5">>
CardTexts ==
  <<T_EPIC, T_PART, T_NAME, T_EPIC_DEV, T_BOTH, T_SHORT, T_PART_DEV, T_LONG>>

\* one block of three spans in the cell of row 1, column 1: the text that
\* reads first is listed second, and the other two are printed at one place
BlockOfTexts(a, b, c) ==
  << <<SpanAt(CardTexts[b], 60, 160), SpanAt(CardTexts[a], 60, 150),
       SpanAt(CardTexts[c], 60, 160)>> >>

\* centers on and next to the edges of the cells and of their tolerance, one
\* step of the coordinates' resolution apart
EdgeXs ==
  <<Pt(48) - 1, Pt(48), Pt(85), Pt(118), Pt(120), Pt(122), Pt(122) + 1, Pt(400)>>
EdgeYs ==
  <<Pt(96) - 1, Pt(96), Pt(98) - 1, Pt(98), Pt(150), Pt(286), Pt(288),
    Pt(288) + 1, Pt(290), Pt(290) + 1, Pt(900)>>

\* one block of one span, 10 wide and 8 high around a center of the above
BlockAtEdge(x, y) ==
  << << [text |-> T_NAME,
         bbox |-> <<EdgeXs[x] - Pt(5), EdgeYs[y] - Pt(4),
                    EdgeXs[x] + Pt(5), EdgeYs[y] + Pt(4)>>] >> >>

BlocksOf(chosen) == [i \in DOMAIN chosen |-> TextBlocks[chosen[i]]]

CorruptPage == [corrupt |-> TRUE, drawings |-> <<>>, blocks |-> <<>>]
Page(drawings, blocks) == [corrupt |-> FALSE, drawings |-> drawings, blocks |-> blocks]

\* the pages of a multi-page document
PlainPages ==
  << CorruptPage,
     Page(<<>>, <<>>),
     Page(Layout(2, 2), <<BlockCard11>>),
     Page(Layout(2, 2), <<BlockMargins, BlockOutside>>) >>

PlainDocument(chosen) == [i \in DOMAIN chosen |-> PlainPages[chosen[i]]]

\* --------------------------------------------------------------- the state
VARIABLES
  pdf,                    \* the document: its pages
  start_page, end_page,   \* the page range asked for
  page_num,               \* the loop variable of process_entire_pdf
  pc,                     \* where the run is
  open_handles,           \* pages whose document handle is open
  rectangles_data, all_text_spans, grid_data, classification_result,
  final_cards, page_data, \* the locals of extract_complete_page_data
  master_data,            \* the master document
  \* create_collective_files_from_voter_json and generate_collective_summary
  cpc,                    \* where the collective run is
  cards_data,             \* voter_data['cards']: the pages in file order
  page_assignments,       \* header_mapping['page_assignments']
  files,                  \* the output directory: file name -> content
  idx,                    \* the position of the running loop
  collective_cards, collective_order, collective_stats, collective_files,
  unassigned_pages

extractVars == <<pdf, start_page, end_page, page_num, pc, open_handles,
                 rectangles_data, all_text_spans, grid_data,
                 classification_result, final_cards, page_data, master_data>>

collVars == <<cpc, cards_data, page_assignments, files, idx, collective_cards,
              collective_order, collective_stats, collective_files,
              unassigned_pages>>

vars == <<extractVars, collVars>>

NoGrid ==
  [all_grid_cells |-> <<>>, main_horizontal |-> <<>>, main_vertical |-> <<>>,
   footer_separator |-> NoSeparator]
NoClassification ==
  [header_spans |-> <<>>, footer_spans |-> <<>>, unassigned_spans |-> <<>>,
   card_assignments |-> <<>>]
NoPageData ==
  [page_number |-> 0, header |-> <<>>, footer |-> <<>>, cards |-> <<>>,
   total_cards |-> 0, unassigned_spans |-> <<>>]

EmptyMaster ==
  [headers |-> <<>>, footers |-> <<>>, cards |-> <<>>, unassigned |-> <<>>,
   summary |-> [total_pages_processed |-> 0, total_cards_found |-> 0,
                pages_with_cards |-> 0, pages_without_cards |-> 0]]

LocalsCleared ==
  /\ rectangles_data' = <<>>
  /\ all_text_spans' = <<>>
  /\ grid_data' = NoGrid
  /\ classification_result' = NoClassification
  /\ final_cards' = <<>>
  /\ page_data' = NoPageData

\* One page with many drawings and little text, or one page with a plain
\* layout and much text, or one card with any three texts, or one span on or
\* next to an edge of the grid, or a document of several plain pages with any
\* range.
InitManyDrawings ==
  \E h \in 0..MaxH, v \in 0..MaxV, before \in BOOLEAN :
    \E extras \in {S \in SUBSET DOMAIN ExtraRects : Cardinality(S) <= MaxExtra} :
      /\ pdf = <<Page(DrawnPage(h, v, extras, before), <<BlockOutside>>)>>
      /\ start_page = 1
      /\ end_page = 1

InitMuchText ==
  \E h \in 1..MaxH, v \in 1..MaxV :
    \E chosen \in SeqsUpTo(DOMAIN TextBlocks, MaxBlocks) :
      /\ pdf = <<Page(Layout(h, v), BlocksOf(chosen))>>
      /\ start_page = 1
      /\ end_page = 1

InitManyTexts ==
  \E a \in DOMAIN CardTexts, b \in DOMAIN CardTexts, c \in DOMAIN CardTexts :
    /\ pdf = <<Page(Layout(2, 2), <<BlockOfTexts(a, b, c)>>)>>
    /\ start_page = 1
    /\ end_page = 1

InitSpanPositions ==
  \E h \in 2..MaxH, v \in 2..MaxV :
    \E x \in DOMAIN EdgeXs, y \in DOMAIN EdgeYs :
      /\ pdf = <<Page(Layout(h, v), <<BlockAtEdge(x, y)>>)>>
      /\ start_page = 1
      /\ end_page = 1

InitManyPages ==
  \E chosen \in SeqsUpTo(DOMAIN PlainPages, MaxPages) :
    /\ pdf = PlainDocument(chosen)
    /\ start_page \in 1..(MaxPages + 1)
    /\ end_page \in 0..(MaxPages + 1)

\* the collective run has not started
CollectiveIdle ==
  /\ cpc = "off"
  /\ cards_data = <<>>
  /\ page_assignments = <<>>
  /\ files = <<>>
  /\ idx = 0
  /\ collective_cards = <<>>
  /\ collective_order = <<>>
  /\ collective_stats = <<>>
  /\ collective_files = <<>>
  /\ unassigned_pages = <<>>

\* pages that fail, are blank, or hold text and no drawing
QuickPages ==
  << CorruptPage,
     Page(<<>>, <<>>),
     Page(<<>>, <<BlockCard11>>) >>

InitQuickPages ==
  \E chosen \in SeqsUpTo(DOMAIN QuickPages, MaxPages) :
    /\ pdf = [i \in DOMAIN chosen |-> QuickPages[chosen[i]]]
    /\ start_page \in 1..(MaxPages + 1)
    /\ end_page \in 0..(MaxPages + 1)

\* the state on entry to process_entire_pdf
Started ==
  /\ CollectiveIdle
  /\ page_num = start_page
  /\ pc = "loop"
  /\ open_handles = {}
  /\ rectangles_data = <<>>
  /\ all_text_spans = <<>>
  /\ grid_data = NoGrid
  /\ classification_result = NoClassification
  /\ final_cards = <<>>
  /\ page_data = NoPageData
  /\ master_data = EmptyMaster

Init ==
  /\ \/ InitManyDrawings \/ InitMuchText \/ InitManyTexts
     \/ InitSpanPositions \/ InitManyPages
  /\ Started

FairInit == InitQuickPages /\ Started

\* ---------------------------------------------------- process_entire_pdf
\* for page_num in range(start_page, end_page + 1): the next page, and the
\* call of extract_complete_page_data opening the document
NextPage ==
  /\ pc = "loop"
  /\ page_num <= end_page
  /\ pc' = "read"
  /\ open_handles' = open_handles \cup {page_num}
  /\ UNCHANGED <<pdf, start_page, end_page, page_num, rectangles_data,
                 all_text_spans, grid_data, classification_result, final_cards,
                 page_data, master_data>>
  /\ UNCHANGED collVars

\* the range is exhausted: return master_data
Finish ==
  /\ pc = "loop"
  /\ page_num > end_page
  /\ pc' = "done"
  /\ UNCHANGED <<pdf, start_page, end_page, page_num, open_handles,
                 rectangles_data, all_text_spans, grid_data,
                 classification_result, final_cards, page_data, master_data>>
  /\ UNCHANGED collVars

PageReadable(n) == n \in DOMAIN pdf /\ ~pdf[n].corrupt

\* load_page, get_drawings and get_text succeed; the document is closed
ReadPage ==
  /\ pc = "read"
  /\ PageReadable(page_num)
  /\ rectangles_data' =
       [i \in DOMAIN pdf[page_num].drawings |-> RectData(pdf[page_num].drawings[i])]
  /\ all_text_spans' = AllTextSpans(pdf[page_num].blocks)
  /\ open_handles' = open_handles \ {page_num}
  /\ pc' = "grid"
  /\ UNCHANGED <<pdf, start_page, end_page, page_num, grid_data,
                 classification_result, final_cards, page_data, master_data>>
  /\ UNCHANGED collVars

\* load_page, get_drawings or get_text raises: the exception leaves
\* extract_complete_page_data before doc.close()
ReadRaises ==
  /\ pc = "read"
  /\ ~PageReadable(page_num)
  /\ pc' = "except"
  /\ UNCHANGED <<pdf, start_page, end_page, page_num, open_handles,
                 rectangles_data, all_text_spans, grid_data,
                 classification_result, final_cards, page_data, master_data>>
  /\ UNCHANGED collVars

DetectGrid ==
  /\ pc = "grid"
  /\ grid_data' = detect_grid_from_rectangles(rectangles_data)
  /\ pc' = "classify"
  /\ UNCHANGED <<pdf, start_page, end_page, page_num, open_handles,
                 rectangles_data, all_text_spans, classification_result,
                 final_cards, page_data, master_data>>
  /\ UNCHANGED collVars

Classify ==
  /\ pc = "classify"
  /\ classification_result' = classify_text_spans(all_text_spans, grid_data)
  /\ pc' = "cards"
  /\ UNCHANGED <<pdf, start_page, end_page, page_num, open_handles,
                 rectangles_data, all_text_spans, grid_data, final_cards,
                 page_data, master_data>>
  /\ UNCHANGED collVars

CreateCards ==
  /\ pc = "cards"
  /\ final_cards' = create_final_cards(classification_result.card_assignments,
                                       grid_data.all_grid_cells)
  /\ pc' = "return"
  /\ UNCHANGED <<pdf, start_page, end_page, page_num, open_handles,
                 rectangles_data, all_text_spans, grid_data,
                 classification_result, page_data, master_data>>
  /\ UNCHANGED collVars

\* the return statement of extract_complete_page_data
ReturnPage ==
  /\ pc = "return"
  /\ page_data' = PageData(page_num, classification_result, final_cards)
  /\ pc' = "record"
  /\ UNCHANGED <<pdf, start_page, end_page, page_num, open_handles,
                 rectangles_data, all_text_spans, grid_data,
                 classification_result, final_cards, master_data>>
  /\ UNCHANGED collVars

RecordedSummaryCountingBoth(summary, data) ==
  [total_pages_processed |-> summary.total_pages_processed + 1,
   total_cards_found |-> summary.total_cards_found + data.total_cards,
   pages_with_cards |-> summary.pages_with_cards + 1,
   pages_without_cards |->
     summary.pages_without_cards + (IF data.total_cards > 0 THEN 0 ELSE 1)]

RecordedSummary(summary, data) ==
  [total_pages_processed |-> summary.total_pages_processed + 1,
   total_cards_found |-> summary.total_cards_found + data.total_cards,
   pages_with_cards |->
     summary.pages_with_cards + (IF data.total_cards > 0 THEN 1 ELSE 0),
   pages_without_cards |->
     summary.pages_without_cards + (IF data.total_cards > 0 THEN 0 ELSE 1)]

Recorded(master, n, data) ==
  [headers |-> DictSet(master.headers, Str(n), data.header),
   footers |-> DictSet(master.footers, Str(n), data.footer),
   cards |-> DictSet(master.cards, Str(n), data.cards),
   unassigned |-> DictSet(master.unassigned, Str(n), data.unassigned_spans),
   summary |-> RecordedSummary(master.summary, data)]

\* the page's data goes into the master document, the summary is updated
RecordPage ==
  /\ pc = "record"
  /\ master_data' = Recorded(master_data, page_num, page_data)
  /\ page_num' = page_num + 1
  /\ pc' = "loop"
  /\ LocalsCleared
  /\ UNCHANGED <<pdf, start_page, end_page, open_handles>>
  /\ UNCHANGED collVars

RecordedEmptySkippingKeys(master, n) == master

RecordedEmptyWipingCards(master, n) ==
  [headers |-> DictSet(master.headers, Str(n), <<>>),
   footers |-> DictSet(master.footers, Str(n), <<>>),
   cards |-> [k \in DOMAIN master.cards \cup {Str(n)} |-> <<>>],
   unassigned |-> DictSet(master.unassigned, Str(n), <<>>),
   summary |-> master.summary]

RecordedEmpty(master, n) ==
  [headers |-> DictSet(master.headers, Str(n), <<>>),
   footers |-> DictSet(master.footers, Str(n), <<>>),
   cards |-> DictSet(master.cards, Str(n), <<>>),
   unassigned |-> DictSet(master.unassigned, Str(n), <<>>),
   summary |-> master.summary]

\* a handler that records the failed page and leaves the loop on the same page
HandleExceptionRetrying ==
  /\ pc = "except"
  /\ master_data' = RecordedEmpty(master_data, page_num)
  /\ page_num' = page_num
  /\ pc' = "loop"
  /\ LocalsCleared
  /\ open_handles' \in {open_handles, open_handles \ {page_num}}
  /\ UNCHANGED <<pdf, start_page, end_page>>
  /\ UNCHANGED collVars

\* except Exception: empty data for the failed page.  The document of the
\* failed call was never closed; once the handler ends nothing refers to it,
\* and the interpreter may finalize it then or leave it open.
HandleException ==
  /\ pc = "except"
  /\ master_data' = RecordedEmpty(master_data, page_num)
  /\ page_num' = page_num + 1
  /\ pc' = "loop"
  /\ LocalsCleared
  /\ open_handles' \in {open_handles, open_handles \ {page_num}}
  /\ UNCHANGED <<pdf, start_page, end_page>>
  /\ UNCHANGED collVars

Next ==
  \/ NextPage
  \/ Finish
  \/ ReadPage
  \/ ReadRaises
  \/ DetectGrid
  \/ Classify
  \/ CreateCards
  \/ ReturnPage
  \/ RecordPage
  \/ HandleException

Spec == Init /\ [][Next]_vars

\* process_entire_pdf is one sequential call: whenever a step of it can be
\* taken, the interpreter takes it
FairSpec == FairInit /\ [][Next]_vars /\ WF_vars(Next)

\* ------------------------------------------- extract_collective_number
\* A collective name is a sequence of characters; "bha", "ga", "ka" stand for
\* the Devanagari letters of the header phrase.
PhraseFull == <<"bha", "bha", "ga", " ", "ka", ".">>
PhraseShort == <<"ka", ".">>
PhraseWord == <<"bha", "bha", "ga">>

StartsWith(text, i, lit) ==
  /\ i + Len(lit) - 1 <= Len(text)
  /\ \A k \in DOMAIN lit : text[i + k - 1] = lit[k]

\* where the digits start for the literal at i: after it, and after any
\* whitespace when the pattern has \s*
DigitsFrom(text, i, lit, spaces) ==
  IF spaces THEN RunEnd(text, i + Len(lit), SpaceChars) ELSE i + Len(lit)

\* re.search of lit (\s*) (\d+): the digits of the leftmost match, or None
SearchNumber(text, lit, spaces) ==
  LET starts == {i \in 1..Len(text) :
                   /\ StartsWith(text, i, lit)
                   /\ AfterDigits(text, DigitsFrom(text, i, lit, spaces)) # 0}
  IN IF starts = {} THEN None
     ELSE LET i == CHOOSE i \in starts : \A j \in starts : i <= j
              from == DigitsFrom(text, i, lit, spaces)
          IN SubSeq(text, from, AfterDigits(text, from) - 1)

\* the first of the four patterns that matches decides
FirstFound(numbers) ==
  LET found == {i \in DOMAIN numbers : numbers[i] # None}
  IN IF found = {} THEN None
     ELSE numbers[CHOOSE i \in found : \A j \in found : i <= j]

extract_collective_number(collective_header) ==
  FirstFound(<<SearchNumber(collective_header, PhraseFull, FALSE),
               SearchNumber(collective_header, PhraseShort, FALSE),
               SearchNumber(collective_header, PhraseWord, TRUE),
               SearchNumber(collective_header, <<>>, FALSE)>>)

\* ------------------------- create_collective_files_from_voter_json
UNASSIGNED == <<"UNASSIGNED">>

\* d.get(k, default)
DictGet(d, k, default) == IF k \in DOMAIN d THEN d[k] ELSE default

\* json.dump writes the int keys of a dict as strings
JsonKeys(d) == [k \in {Str(n) : n \in DOMAIN d} |-> d[IntOf(k)]]

FileName(number) == <<"collective_number_">> \o number \o <<".json">>
UnassignedFile == <<"unassigned_collective.json">>
SummaryFile == <<"collectives_summary.json">>

NoStats == [total_cards |-> 0, total_voters |-> 0, pages |-> {}]

\* the collective of a page of cards_data: page_assignments.get(str(page_num), "UNASSIGNED")
CollectiveOf(page_num_str) ==
  DictGet(page_assignments, Str(IntOf(page_num_str)), UNASSIGNED)

\* the data is loaded and the output directory is made anew
Load ==
  /\ cpc = "start"
  /\ files' = <<>>
  /\ collective_cards' = <<>>
  /\ collective_order' = <<>>
  /\ collective_stats' = <<>>
  /\ idx' = 1
  /\ cpc' = "group"
  /\ UNCHANGED <<cards_data, page_assignments, collective_files, unassigned_pages>>
  /\ UNCHANGED extractVars

\* one page of the first loop
GroupPage ==
  /\ cpc = "group"
  /\ idx <= Len(cards_data)
  /\ LET page_num_str == cards_data[idx].key
         page_cards == cards_data[idx].cards
         number == IntOf(page_num_str)
         collective == CollectiveOf(page_num_str)
         stats == DictGet(collective_stats, collective, NoStats)
     IN IF collective # UNASSIGNED
        THEN /\ collective_cards' =
                  DictSet(collective_cards, collective,
                          DictSet(DictGet(collective_cards, collective, <<>>),
                                  number, page_cards))
             /\ collective_order' =
                  IF collective \in DOMAIN collective_cards THEN collective_order
                  ELSE Append(collective_order, collective)
             /\ collective_stats' =
                  DictSet(collective_stats, collective,
                          [total_cards |-> stats.total_cards + Len(page_cards),
                           total_voters |-> stats.total_voters + Len(page_cards),
                           pages |-> stats.pages \cup {number}])
        ELSE UNCHANGED <<collective_cards, collective_order, collective_stats>>
  /\ idx' = idx + 1
  /\ UNCHANGED <<cpc, cards_data, page_assignments, files, collective_files,
                 unassigned_pages>>
  /\ UNCHANGED extractVars

GroupDone ==
  /\ cpc = "group"
  /\ idx > Len(cards_data)
  /\ cpc' = "write"
  /\ idx' = 1
  /\ collective_files' = <<>>
  /\ UNCHANGED <<cards_data, page_assignments, files, collective_cards,
                 collective_order, collective_stats, unassigned_pages>>
  /\ UNCHANGED extractVars

CollectiveDataCountingPages(collective, collective_number) ==
  [metadata |->
     [collective_name |-> collective,
      collective_number |-> collective_number,
      total_pages |-> Cardinality(DOMAIN collective_cards[collective]),
      total_cards |-> Cardinality(DOMAIN collective_cards[collective]),
      total_voters |-> Cardinality(DOMAIN collective_cards[collective]),
      pages |-> InOrder(collective_stats[collective].pages),
      file_generated |-> TRUE],
   pages |-> JsonKeys(collective_cards[collective])]

CollectiveData(collective, collective_number) ==
  [metadata |->
     [collective_name |-> collective,
      collective_number |-> collective_number,
      total_pages |-> Cardinality(DOMAIN collective_cards[collective]),
      total_cards |-> collective_stats[collective].total_cards,
      total_voters |-> collective_stats[collective].total_voters,
      pages |-> InOrder(collective_stats[collective].pages),
      file_generated |-> TRUE],
   pages |-> JsonKeys(collective_cards[collective])]

\* one collective of the second loop, its number found: the file is written
WriteCollective ==
  /\ cpc = "write"
  /\ idx <= Len(collective_order)
  /\ LET collective == collective_order[idx]
         collective_number == extract_collective_number(collective)
     IN /\ collective_number # None
        /\ files' = DictSet(files, FileName(collective_number),
                            CollectiveData(collective, collective_number))
        /\ collective_files' =
             DictSet(collective_files, collective, FileName(collective_number))
  /\ idx' = idx + 1
  /\ UNCHANGED <<cpc, cards_data, page_assignments, collective_cards,
                 collective_order, collective_stats, unassigned_pages>>
  /\ UNCHANGED extractVars

\* one collective of the second loop, no number in its name: nothing is written
SkipCollective ==
  /\ cpc = "write"
  /\ idx <= Len(collective_order)
  /\ extract_collective_number(collective_order[idx]) = None
  /\ idx' = idx + 1
  /\ UNCHANGED <<cpc, cards_data, page_assignments, files, collective_cards,
                 collective_order, collective_stats, collective_files,
                 unassigned_pages>>
  /\ UNCHANGED extractVars

WriteDone ==
  /\ cpc = "write"
  /\ idx > Len(collective_order)
  /\ cpc' = "unassigned"
  /\ UNCHANGED <<cards_data, page_assignments, files, idx, collective_cards,
                 collective_order, collective_stats, collective_files,
                 unassigned_pages>>
  /\ UNCHANGED extractVars

\* page_assignments.get(str(page_num)) == "UNASSIGNED": get() without a default
IsUnassigned(page_num_str) ==
  DictGet(page_assignments, Str(IntOf(page_num_str)), None) = UNASSIGNED

\* every unassigned page given the cards of the first unassigned page
UnassignedPagesOfFirst ==
  LET at == {i \in DOMAIN cards_data : IsUnassigned(cards_data[i].key)}
  IN [n \in {IntOf(cards_data[i].key) : i \in at} |->
        cards_data[CHOOSE i \in at : \A j \in at : i <= j].cards]

UnassignedPages ==
  LET at == {i \in DOMAIN cards_data : IsUnassigned(cards_data[i].key)}
  IN [n \in {IntOf(cards_data[i].key) : i \in at} |->
        cards_data[CHOOSE i \in at : IntOf(cards_data[i].key) = n].cards]

UnassignedData(pages) ==
  [metadata |->
     [collective_name |-> UNASSIGNED,
      total_pages |-> Cardinality(DOMAIN pages),
      total_cards |-> SumSeq([i \in DOMAIN InOrder(DOMAIN pages) |->
                                Len(pages[InOrder(DOMAIN pages)[i]])]),
      total_voters |-> SumSeq([i \in DOMAIN InOrder(DOMAIN pages) |->
                                 Len(pages[InOrder(DOMAIN pages)[i]])]),
      pages |-> InOrder(DOMAIN pages),
      note |-> "Pages without proper header assignment"],
   pages |-> JsonKeys(pages)]

\* the third loop, the unassigned file when a page is unassigned, the return
CollectUnassigned ==
  /\ cpc = "unassigned"
  /\ unassigned_pages' = UnassignedPages
  /\ files' = IF DOMAIN UnassignedPages # {}
              THEN DictSet(files, UnassignedFile, UnassignedData(UnassignedPages))
              ELSE files
  /\ cpc' = "returned"
  /\ UNCHANGED <<cards_data, page_assignments, idx, collective_cards,
                 collective_order, collective_stats, collective_files>>
  /\ UNCHANGED extractVars

\* the summary generate_collective_summary writes from the analysis result
SummaryData ==
  [metadata |->
     [total_collectives |-> Cardinality(DOMAIN collective_stats),
      total_pages_processed |-> Len(cards_data),
      total_cards_processed |->
        SumSeq([i \in DOMAIN cards_data |-> Len(cards_data[i].cards)]),
      total_voters_processed |->
        SumSeq([i \in DOMAIN cards_data |-> Len(cards_data[i].cards)]),
      analysis_complete |-> TRUE],
   collectives |->
     [collective \in DOMAIN collective_stats |->
        [collective_number |-> extract_collective_number(collective),
         pages |-> InOrder(collective_stats[collective].pages),
         total_cards |-> collective_stats[collective].total_cards,
         total_voters |-> collective_stats[collective].total_voters,
         file |-> FileName(extract_collective_number(collective))]]]

GenerateSummary ==
  /\ cpc = "returned"
  /\ files' = DictSet(files, SummaryFile, SummaryData)
  /\ cpc' = "done"
  /\ UNCHANGED <<cards_data, page_assignments, idx, collective_cards,
                 collective_order, collective_stats, collective_files,
                 unassigned_pages>>
  /\ UNCHANGED extractVars

\* the inputs of a collective run
NameFull == <<"bha", "bha", "ga", " ", "ka", ".", "1">>
NameShort == <<"w", " ", "ka", ".", "1">>
NamePlain == <<"w", "a", "r", "d">>
NameTwo == <<"7", " ", "bha", "bha", "ga", " ", "ka", ".", "dev1", "2">>
CollectiveNames == <<UNASSIGNED, NameFull, NameShort, NamePlain, NameTwo>>

SampleCard(n) ==
  [card_number |-> n, bbox |-> <<50, 100, 120, 286>>, row |-> 1, col |-> n,
   raw_content |-> <<T_EPIC, T_PART, T_NAME>>, epic_number |-> T_EPIC,
   part_number |-> T_PART, text_spans_count |-> 3]
CardLists == << <<>>, <<SampleCard(1)>>, <<SampleCard(1), SampleCard(2)>> >>

StaleFiles == [f \in {UnassignedFile} |-> UnassignedData([n \in {9} |-> <<>>])]

ExtractorIdle ==
  /\ pdf = <<>>
  /\ start_page = 1
  /\ end_page = 0
  /\ page_num = 1
  /\ pc = "off"
  /\ open_handles = {}
  /\ rectangles_data = <<>>
  /\ all_text_spans = <<>>
  /\ grid_data = NoGrid
  /\ classification_result = NoClassification
  /\ final_cards = <<>>
  /\ page_data = NoPageData
  /\ master_data = EmptyMaster

\* a master document of up to MaxPages pages, each with no entry, the entry
\* UNASSIGNED or a collective's name in the page assignments
InitColl ==
  /\ ExtractorIdle
  /\ \E n \in 0..MaxPages :
       \E cards \in [1..n -> DOMAIN CardLists],
          names \in [1..n -> 0..Len(CollectiveNames)] :
         /\ cards_data = [i \in 1..n |-> [key |-> Str(i), cards |-> CardLists[cards[i]]]]
         /\ page_assignments =
              [k \in {Str(i) : i \in {j \in 1..n : names[j] # 0}} |->
                 CollectiveNames[names[IntOf(k)]]]
  /\ files \in {<<>>, StaleFiles}
  /\ cpc = "start"
  /\ idx = 0
  /\ collective_cards = <<>>
  /\ collective_order = <<>>
  /\ collective_stats = <<>>
  /\ collective_files = <<>>
  /\ unassigned_pages = <<>>

NextColl ==
  \/ Load
  \/ GroupPage
  \/ GroupDone
  \/ WriteCollective
  \/ SkipCollective
  \/ WriteDone
  \/ CollectUnassigned
  \/ GenerateSummary

SpecColl == InitColl /\ [][NextColl]_vars

\* ================================================================ claims
Count(seq, x) == Cardinality({i \in DOMAIN seq : seq[i] = x})

Classified == pc \in {"cards", "return", "record"}
CardsBuilt == pc \in {"return", "record"}

\* the lists a classification result is made of: header, footer, unassigned
\* and one list per cell that received a span
BucketsHolding(cr, x) ==
  (IF x \in Range(cr.header_spans) THEN 1 ELSE 0)
    + (IF x \in Range(cr.footer_spans) THEN 1 ELSE 0)
    + (IF x \in Range(cr.unassigned_spans) THEN 1 ELSE 0)
    + Cardinality({k \in DOMAIN cr.card_assignments :
                     x \in Range(cr.card_assignments[k])})

AssignedSpans(cr) ==
  UNION {Range(cr.card_assignments[k]) : k \in DOMAIN cr.card_assignments}

CountInCells(cr, x) ==
  LET ks == DOMAIN cr.card_assignments
  IN Cardinality({<<k, i>> \in ks \X (1..Len(all_text_spans)) :
                    i \in DOMAIN cr.card_assignments[k]
                      /\ cr.card_assignments[k][i] = x})

CountInBuckets(cr, x) ==
  Count(cr.header_spans, x) + Count(cr.footer_spans, x)
    + Count(cr.unassigned_spans, x) + CountInCells(cr, x)

\* C1: after classify_text_spans every input span lies in exactly one of the
\* lists header, footer, unassigned and the cells' assignment lists, as often
\* as it occurs in the input, and the lists hold nothing else
C1_SpanExclusivity ==
  Classified =>
    LET cr == classification_result
        everything == Range(all_text_spans) \cup Range(cr.header_spans)
                        \cup Range(cr.footer_spans)
                        \cup Range(cr.unassigned_spans) \cup AssignedSpans(cr)
    IN \A x \in everything :
         /\ BucketsHolding(cr, x) = 1
         /\ CountInBuckets(cr, x) = Count(all_text_spans, x)

C1_Witness ==
  /\ pc = "cards"
  /\ grid_data.all_grid_cells # <<>>
  /\ classification_result.header_spans # <<>>
  /\ classification_result.footer_spans # <<>>
  /\ classification_result.unassigned_spans # <<>>
  /\ DOMAIN classification_result.card_assignments # {}

\* the texts of the page record's four buckets, one list
RecordTexts(data) ==
  data.header \o data.footer \o data.unassigned_spans
    \o Concat([i \in DOMAIN data.cards |-> data.cards[i].raw_content])

\* the spans of the cells that received fewer than MinSpansPerCard spans
BelowThresholdSpans(cr) ==
  LET ks == {k \in DOMAIN cr.card_assignments :
               Len(cr.card_assignments[k]) < MinSpansPerCard}
  IN {<<k, i>> \in ks \X (1..(MinSpansPerCard - 1)) :
        i \in DOMAIN cr.card_assignments[k]}

\* C2 as stated: the page record's four buckets hold as many texts as there
\* were input spans, whatever number of spans each cell received
C2_NoTextDropped ==
  pc = "record" => Len(RecordTexts(page_data)) = Len(all_text_spans)

\* C2 amended: every text fed to classification is in the page record once
\* for each span that carries it, except the spans of a cell that received
\* fewer than 3 spans, which are in no bucket
C2_DroppedOnlyBelowThreshold ==
  pc = "record" =>
    LET cr == classification_result
        below == BelowThresholdSpans(cr)
        texts == Texts(all_text_spans)
    IN /\ Len(RecordTexts(page_data)) = Len(all_text_spans) - Cardinality(below)
       /\ \A t \in Range(texts) \cup Range(RecordTexts(page_data)) :
            Count(RecordTexts(page_data), t) =
              Count(texts, t)
                - Cardinality({b \in below :
                                 cr.card_assignments[b[1]][b[2]].text = t})

C2_Witness ==
  /\ pc = "record"
  /\ page_data.cards # <<>>
  /\ page_data.header # <<>>
  /\ page_data.footer # <<>>
  /\ BelowThresholdSpans(classification_result) # {}

\* the bucket files of the output directory: every file but the summary
BucketFiles == DOMAIN files \ {SummaryFile}

\* the bucket files whose 'pages' hold the page
BucketsOfPage(page_num_str) ==
  {f \in BucketFiles : page_num_str \in DOMAIN files[f].pages}

\* C3: after create_collective_files_from_voter_json every page of the master
\* document is in the 'pages' of exactly one bucket file (a collective file or
\* the unassigned file), and a page with no entry in page_assignments is in
\* the unassigned file.
C3_PartitionComplete ==
  cpc \in {"returned", "done"} =>
    \A i \in DOMAIN cards_data :
      /\ Cardinality(BucketsOfPage(cards_data[i].key)) = 1
      /\ cards_data[i].key \notin DOMAIN page_assignments
           => BucketsOfPage(cards_data[i].key) = {UnassignedFile}

\* the run has ended on a master document with a page that has no entry in
\* page_assignments
C3_Witness ==
  /\ cpc = "done"
  /\ \E i \in DOMAIN cards_data :
       /\ cards_data[i].key \notin DOMAIN page_assignments
       /\ cards_data[i].cards # <<>>

CellArea(cell) == (cell.bbox[3] - cell.bbox[1]) * (cell.bbox[4] - cell.bbox[2])

InteriorsDisjoint(a, b) ==
  \/ a.bbox[3] <= b.bbox[1] \/ b.bbox[3] <= a.bbox[1]
  \/ a.bbox[4] <= b.bbox[2] \/ b.bbox[4] <= a.bbox[2]

GridLinesSet == pc \in {"classify", "cards", "return", "record"}

\* C4: a non-empty cell list built from H horizontal and V vertical grid lines
\* has (H-1)*(V-1) cells that tile the lines' bounding rectangle (each cell
\* inside it, interiors pairwise disjoint, areas adding up to its area), and
\* cell_id = (row-1)*(V-1) + (col-1) is the cell's index in the list
C4_GridTiling ==
  (GridLinesSet /\ grid_data.all_grid_cells # <<>>) =>
    LET cells == grid_data.all_grid_cells
        H == Len(grid_data.main_horizontal)
        V == Len(grid_data.main_vertical)
        minx == SeqMin(Concat(KeysX(grid_data.main_vertical)))
        maxx == SeqMax(Concat(KeysX(grid_data.main_vertical)))
        miny == SeqMin(Concat(KeysY(grid_data.main_horizontal)))
        maxy == SeqMax(Concat(KeysY(grid_data.main_horizontal)))
    IN /\ Len(cells) = (H - 1) * (V - 1)
       /\ \A i \in DOMAIN cells :
            /\ cells[i].cell_id = i - 1
            /\ cells[i].cell_id = (cells[i].row - 1) * (V - 1) + (cells[i].col - 1)
            /\ cells[i].row \in 1..(H - 1) /\ cells[i].col \in 1..(V - 1)
            /\ minx <= cells[i].bbox[1] /\ cells[i].bbox[1] < cells[i].bbox[3]
            /\ cells[i].bbox[3] <= maxx
            /\ miny <= cells[i].bbox[2] /\ cells[i].bbox[2] < cells[i].bbox[4]
            /\ cells[i].bbox[4] <= maxy
       /\ \A i, j \in DOMAIN cells :
            i # j => InteriorsDisjoint(cells[i], cells[j])
       /\ SumSeq([i \in DOMAIN cells |-> CellArea(cells[i])])
            = (maxx - minx) * (maxy - miny)
       /\ {cells[i].cell_id : i \in DOMAIN cells} = 0..((H - 1) * (V - 1) - 1)

C4_Witness ==
  /\ pc = "classify"
  /\ Len(grid_data.main_horizontal) = 4
  /\ Len(grid_data.main_vertical) = 3
  /\ Len(grid_data.all_grid_cells) = 6

\* the cards built for a cell: those carrying its row and col
CardsOfCell(cards, cell) ==
  {i \in DOMAIN cards : cards[i].row = cell.row /\ cards[i].col = cell.col}

\* C5: a cell yields exactly one card when it received at least 3 spans and
\* no card otherwise, whatever the other cells received; every card is a
\* cell's card
C5_CardThreshold ==
  CardsBuilt =>
    LET cells == grid_data.all_grid_cells
        ca == classification_result.card_assignments
    IN /\ \A i \in DOMAIN cells :
            Cardinality(CardsOfCell(final_cards, cells[i]))
              = IF Len(SpansInCell(ca, cells[i].cell_id)) >= 3 THEN 1 ELSE 0
       /\ \A c \in DOMAIN final_cards :
            \E i \in DOMAIN cells : c \in CardsOfCell(final_cards, cells[i])

C5_Witness ==
  /\ pc = "return"
  /\ \E k1, k2 \in DOMAIN classification_result.card_assignments :
       /\ Len(classification_result.card_assignments[k1]) = 3
       /\ Len(classification_result.card_assignments[k2]) = 2
  /\ Len(final_cards) = 2

\* the cells with at least 3 spans, in ascending cell_id order
CardCells(cells, ca) ==
  SelectSeq(StableSort(cells, [i \in DOMAIN cells |-> <<cells[i].cell_id>>]),
            LAMBDA c : Len(SpansInCell(ca, c.cell_id)) >= 3)

\* C6: with N cells of at least 3 spans the cards carry card_number 1..N in
\* list order, the n-th card being that of the n-th such cell by cell_id
C6_CardNumbering ==
  CardsBuilt =>
    LET with == CardCells(grid_data.all_grid_cells,
                          classification_result.card_assignments)
    IN /\ Len(final_cards) = Len(with)
       /\ \A n \in DOMAIN final_cards :
            /\ final_cards[n].card_number = n
            /\ final_cards[n].row = with[n].row
            /\ final_cards[n].col = with[n].col

\* two cards whose cells are not neighbours in the cell list
C6_Witness ==
  /\ pc = "return"
  /\ Len(final_cards) = 2
  /\ \E i, j \in DOMAIN grid_data.all_grid_cells :
       /\ j > i + 1
       /\ CardsOfCell(final_cards, grid_data.all_grid_cells[i]) = {1}
       /\ CardsOfCell(final_cards, grid_data.all_grid_cells[j]) = {2}

\* the pages the loop has dealt with, and the whole range
PagesHandled == {p \in start_page..end_page : p < page_num}
PageKeys(pages) == {Str(p) : p \in pages}

\* C7: a page whose extraction raised is recorded with four empty lists, the
\* run goes on to the later pages and returns, and at the end each of the
\* four maps has a key for every page of the range
C7_FailedPageRecordedEmpty ==
  /\ pc \in {"loop", "done"} =>
       /\ DOMAIN master_data.headers = PageKeys(PagesHandled)
       /\ DOMAIN master_data.footers = PageKeys(PagesHandled)
       /\ DOMAIN master_data.cards = PageKeys(PagesHandled)
       /\ DOMAIN master_data.unassigned = PageKeys(PagesHandled)
       /\ \A p \in PagesHandled :
            ~PageReadable(p) =>
              /\ master_data.headers[Str(p)] = <<>>
              /\ master_data.footers[Str(p)] = <<>>
              /\ master_data.cards[Str(p)] = <<>>
              /\ master_data.unassigned[Str(p)] = <<>>
  /\ pc = "done" => PagesHandled = start_page..end_page
  /\ pc = "except" => ENABLED HandleException

\* a failed page followed by a page with a card, both recorded at the end
C7_Witness ==
  /\ pc = "done"
  /\ \E p \in start_page..end_page :
       /\ ~PageReadable(p)
       /\ p + 1 <= end_page
       /\ master_data.cards[Str(p)] = <<>>
       /\ master_data.cards[Str(p + 1)] # <<>>

\* C9: with fewer than 2 horizontal or fewer than 2 vertical grid lines the
\* cell list is empty, and then every span is a header span, footer and
\* unassigned are empty, no cell is assigned a span and the page has no card
C9_NoGridAllHeader ==
  /\ (GridLinesSet /\ (Len(grid_data.main_horizontal) < 2
                        \/ Len(grid_data.main_vertical) < 2))
       => grid_data.all_grid_cells = <<>>
  /\ (Classified /\ grid_data.all_grid_cells = <<>>) =>
       /\ classification_result.header_spans = all_text_spans
       /\ classification_result.footer_spans = <<>>
       /\ classification_result.unassigned_spans = <<>>
       /\ DOMAIN classification_result.card_assignments = {}
  /\ (CardsBuilt /\ grid_data.all_grid_cells = <<>>) => final_cards = <<>>
  /\ (pc = "record" /\ grid_data.all_grid_cells = <<>>) =>
       /\ page_data.header = Texts(all_text_spans)
       /\ page_data.total_cards = 0

\* three spans that a grid would have put in a cell, and one below the
\* page's single horizontal line, all header
C9_Witness ==
  /\ pc = "record"
  /\ Len(grid_data.main_horizontal) = 1
  /\ Len(grid_data.main_vertical) >= 2
  /\ Len(page_data.header) >= 4
  /\ \E i \in DOMAIN all_text_spans :
       all_text_spans[i].y0 > Pt(grid_data.main_horizontal[1].y)

\* the page of the end-to-end example: segments at y=100 and y=286 (width
\* 150), at x=50 and x=120 (height 80); three spans centered at (60,150),
\* (60,160), (60,170) and then one at (200,150)
IsSegmentH(r, y) == r.y0 = Pt(y) /\ r.y1 = Pt(y) /\ r.width = Pt(150)
IsSegmentV(r, x) == r.x0 = Pt(x) /\ r.x1 = Pt(x) /\ r.height = Pt(80)
Centers(spans) == [i \in DOMAIN spans |-> <<spans[i].center_x, spans[i].center_y>>]

ExamplePage ==
  /\ Len(rectangles_data) = 4
  /\ \A y \in {100, 286} : \E i \in 1..4 : IsSegmentH(rectangles_data[i], y)
  /\ \A x \in {50, 120} : \E i \in 1..4 : IsSegmentV(rectangles_data[i], x)
  /\ Len(all_text_spans) = 4
  /\ {Centers(all_text_spans)[i] : i \in 1..3}
       = {<<Pt(60), Pt(150)>>, <<Pt(60), Pt(160)>>, <<Pt(60), Pt(170)>>}
  /\ Centers(all_text_spans)[4] = <<Pt(200), Pt(150)>>

\* C10: on the example page the grid is the single cell row 1, col 1 with
\* bbox (50,100,120,286); the first three spans are assigned to it and make
\* the page's only card, with text_spans_count 3; the fourth span is not
\* assigned to the cell and is a header or an unassigned span
C10_EndToEndExample ==
  (pc = "record" /\ ExamplePage) =>
    LET cr == classification_result
    IN /\ Len(grid_data.all_grid_cells) = 1
       /\ grid_data.all_grid_cells[1].row = 1
       /\ grid_data.all_grid_cells[1].col = 1
       /\ grid_data.all_grid_cells[1].bbox = <<50, 100, 120, 286>>
       /\ DOMAIN cr.card_assignments = {grid_data.all_grid_cells[1].cell_id}
       /\ cr.card_assignments[grid_data.all_grid_cells[1].cell_id]
            = SubSeq(all_text_spans, 1, 3)
       /\ Len(page_data.cards) = 1
       /\ page_data.cards[1].text_spans_count = 3
       /\ page_data.cards[1].row = 1 /\ page_data.cards[1].col = 1
       /\ Len(page_data.cards[1].raw_content) = 3
       /\ \/ /\ cr.header_spans = <<all_text_spans[4]>>
             /\ cr.unassigned_spans = <<>>
          \/ /\ cr.unassigned_spans = <<all_text_spans[4]>>
             /\ cr.header_spans = <<>>
       /\ cr.footer_spans = <<>>

C10_Witness ==
  /\ pc = "record"
  /\ ExamplePage
  /\ page_data.unassigned_spans = <<T_NAME>>
  /\ page_data.cards[1].epic_number = T_EPIC

\* the matches of [A-Z]{3}[0-9]{7}, whitespace, [0-9]+/[0-9]+/[0-9]+ in a text,
\* with the digits of the given class: <<i, from, to>>, the identifier at
\* i..i+9 and the three groups at from..to
DigitGroups(text, from, to, digits) ==
  \E s1 \in from..to, s2 \in from..to :
    /\ from < s1 /\ s1 + 1 < s2 /\ s2 < to
    /\ text[s1] = "/" /\ text[s2] = "/"
    /\ \A k \in (from..to) \ {s1, s2} : text[k] \in digits

Identifiers(text, digits) ==
  {i \in 1..(Len(text) - 9) :
     /\ \A k \in i..(i + 2) : text[k] \in UpperChars
     /\ \A k \in (i + 3)..(i + 9) : text[k] \in digits}

GroupsAfter(text, i, digits) ==
  {p \in ((i + 11)..Len(text)) \X ((i + 11)..Len(text)) :
     /\ p[1] <= p[2]
     /\ \A k \in (i + 10)..(p[1] - 1) : text[k] \in SpaceChars
     /\ DigitGroups(text, p[1], p[2], digits)}

PatternMatches(text, digits) ==
  UNION {{<<i, p[1], p[2]>> : p \in GroupsAfter(text, i, digits)} :
           i \in Identifiers(text, digits)}

\* the leftmost match, its last group as long as it can be
LeftmostMatch(text, digits) ==
  CHOOSE m \in PatternMatches(text, digits) :
    \A o \in PatternMatches(text, digits) :
      m[1] < o[1] \/ (m[1] = o[1] /\ m[3] >= o[3])

EpicPartAsPattern(card, digits) ==
  LET text == JoinSpace(card.raw_content)
  IN /\ card.epic_number = None <=> card.part_number = None
     /\ card.epic_number # None <=> PatternMatches(text, digits) # {}
     /\ PatternMatches(text, digits) # {} =>
          LET m == LeftmostMatch(text, digits)
          IN /\ card.epic_number = SubSeq(text, m[1], m[1] + 9)
             /\ card.part_number = SubSeq(text, m[2], m[3])

\* C11: a card's epic_number and part_number are both null or both set; they
\* are set exactly when the card's texts joined by single spaces contain
\* three uppercase letters, seven digits 0-9, whitespace and three groups of
\* digits 0-9 delimited by "/", and then they are the identifier and the
\* groups of the leftmost such match
C11_EpicPartAsciiPattern ==
  CardsBuilt =>
    \A n \in DOMAIN final_cards : EpicPartAsPattern(final_cards[n], AsciiDigits)

\* a card whose identifier is set and ends in a digit that is not 0-9
C11_Witness ==
  /\ CardsBuilt
  /\ \E n \in DOMAIN final_cards :
       /\ final_cards[n].epic_number = T_EPIC_DEV
       /\ final_cards[n].part_number = T_PART

\* the pages handled so far whose extraction did not raise
PagesExtracted == {p \in PagesHandled : PageReadable(p)}

\* the cards recorded for a set of pages
CardsRecorded(pages) ==
  SumSeq([i \in DOMAIN InOrder(pages) |->
            Len(master_data.cards[Str(InOrder(pages)[i])])])

SummaryConsistent ==
  LET summary == master_data.summary
  IN /\ summary.pages_with_cards + summary.pages_without_cards
          = summary.total_pages_processed
     /\ summary.total_pages_processed = Cardinality(PagesExtracted)
     /\ DOMAIN master_data.cards = PageKeys(PagesHandled)
     /\ summary.total_cards_found = CardsRecorded(PagesHandled)

\* C12 as stated: the summary is consistent at every point of the run, and
\* after the run the failed pages number
\* (end_page - start_page + 1) - total_pages_processed
C12_SummaryCounters ==
  /\ SummaryConsistent
  /\ pc = "done" =>
       Cardinality(PagesHandled \ PagesExtracted)
         = (end_page - start_page + 1) - master_data.summary.total_pages_processed

\* C12 amended: the summary is consistent at every point of the run, and
\* after the run the failed pages number the pages of
\* range(start_page, end_page + 1) less total_pages_processed
C12_SummaryCountersOfRange ==
  /\ SummaryConsistent
  /\ pc = "done" =>
       Cardinality(PagesHandled \ PagesExtracted)
         = Cardinality(start_page..end_page)
             - master_data.summary.total_pages_processed

\* a run over a page with a card, a page without one and a page that failed
C12_Witness ==
  /\ pc = "done"
  /\ master_data.summary.pages_with_cards = 1
  /\ master_data.summary.pages_without_cards = 1
  /\ master_data.summary.total_cards_found = 1
  /\ Cardinality(PagesHandled \ PagesExtracted) = 1

\* the page numbers of a bucket file's 'pages' map
PageNumbers(content) == {IntOf(k) : k \in DOMAIN content.pages}

\* the cards of a bucket file's 'pages' map
CardsIn(content) ==
  SumSeq([i \in DOMAIN InOrder(PageNumbers(content)) |->
            Len(content.pages[Str(InOrder(PageNumbers(content))[i])])])

Ascending(list) == \A i \in DOMAIN list, j \in DOMAIN list : i < j => list[i] < list[j]

MetadataAgrees(content) ==
  /\ content.metadata.total_pages = Cardinality(DOMAIN content.pages)
  /\ Range(content.metadata.pages) = PageNumbers(content)
  /\ Ascending(content.metadata.pages)
  /\ content.metadata.total_cards = CardsIn(content)
  /\ content.metadata.total_voters = content.metadata.total_cards

\* C13: in every collective file and in the unassigned file the metadata
\* agrees with the 'pages' map: total_pages is the number of its pages,
\* 'pages' lists exactly its page numbers, ascending and without repeats,
\* total_cards is the sum of the lengths of its card arrays, and
\* total_voters equals total_cards
C13_MetadataAgreesWithPages ==
  cpc # "start" => \A f \in BucketFiles : MetadataAgrees(files[f])

\* a collective file of two pages with one and two cards
C13_Witness ==
  /\ cpc = "done"
  /\ \E f \in BucketFiles \ {UnassignedFile} :
       /\ files[f].metadata.total_pages = 2
       /\ files[f].metadata.total_cards = 3

\* C14: the document handle extract_complete_page_data opens is released by
\* the time the function exits, on return and on every exception path, so
\* the only handle ever open is that of the page being read
C14_HandleReleasedAtExit ==
  open_handles \subseteq (IF pc = "read" THEN {page_num} ELSE {})

\* extract_complete_page_data has exited with an exception
C14_Witness ==
  /\ pc = "except"
  /\ page_num \in DOMAIN pdf
  /\ pdf[page_num].corrupt

RunWritten == cpc \in {"unassigned", "returned", "done"}

\* C15: every collective listed in the summary has had its file written, and
\* the summary's 'file' for it names that written file, whatever the
\* collective's name
C15_SummaryFilesWritten ==
  cpc = "done" =>
    \A c \in DOMAIN files[SummaryFile].collectives :
      /\ c \in DOMAIN collective_files
      /\ files[SummaryFile].collectives[c].file = collective_files[c]
      /\ collective_files[c] \in DOMAIN files

\* the run has ended with a page in a collective whose name holds no number
C15_Witness ==
  /\ cpc = "done"
  /\ NamePlain \in DOMAIN files[SummaryFile].collectives
  /\ files[SummaryFile].collectives[NamePlain].total_cards > 0

\* C16: collectives of different names are written to different files, none
\* overwritten by a later one, so every page of a written collective is still
\* in some file after the run
C16_DistinctCollectiveFiles ==
  RunWritten =>
    /\ \A c1 \in DOMAIN collective_files, c2 \in DOMAIN collective_files :
         c1 # c2 => collective_files[c1] # collective_files[c2]
    /\ \A c \in DOMAIN collective_files :
         \A p \in DOMAIN collective_cards[c] :
           \E f \in BucketFiles : Str(p) \in DOMAIN files[f].pages

\* the run has ended with two collectives of different names and equal number,
\* each owning a page with cards
C16_Witness ==
  /\ cpc = "done"
  /\ {NameFull, NameShort} \subseteq DOMAIN collective_files
  /\ \A c \in {NameFull, NameShort} : collective_stats[c].total_cards > 0

\* the cells whose bbox, grown by 2 on every side, holds the span's center
CellsAround(span, cells) ==
  {i \in DOMAIN cells :
     /\ Pt(cells[i].bbox[1]) - Pt(2) <= span.center_x
     /\ span.center_x <= Pt(cells[i].bbox[3]) + Pt(2)
     /\ Pt(cells[i].bbox[2]) - Pt(2) <= span.center_y
     /\ span.center_y <= Pt(cells[i].bbox[4]) + Pt(2)}

\* the cell_ids under which the span is assigned
AssignedTo(cr, span) ==
  {k \in DOMAIN cr.card_assignments : span \in Range(cr.card_assignments[k])}

\* C17: with a grid, a span is assigned to a cell exactly when its center is
\* within some cell's bbox grown by 2 on every side, bounds included, and
\* then to the cell of smallest cell_id among those, and to no other
C17_FirstMatchWithTolerance ==
  (Classified /\ grid_data.all_grid_cells # <<>>) =>
    LET cells == grid_data.all_grid_cells
        cr == classification_result
    IN \A n \in DOMAIN all_text_spans :
         LET span == all_text_spans[n]
             around == {cells[i].cell_id : i \in CellsAround(span, cells)}
         IN /\ AssignedTo(cr, span) # {} <=> around # {}
            /\ around # {} =>
                 AssignedTo(cr, span)
                   = {CHOOSE k \in around : \A o \in around : k <= o}

\* a span whose center is on the outer bound of the tolerance of two cells is
\* assigned to the earlier one
C17_Witness ==
  /\ Classified
  /\ \E n \in DOMAIN all_text_spans :
       LET span == all_text_spans[n]
           around == CellsAround(span, grid_data.all_grid_cells)
       IN /\ Cardinality(around) >= 2
          /\ span.center_x = Pt(122)
          /\ span.center_y = Pt(288)
          /\ AssignedTo(classification_result, span) = {0}

GridTop(cells) == SeqMin([i \in DOMAIN cells |-> cells[i].bbox[2]])
GridBottom(cells) == SeqMax([i \in DOMAIN cells |-> cells[i].bbox[4]])

\* C18: with a grid, a span that no cell claims is a header span iff its y1 is
\* above the least cell top, else a footer span iff its y0 is below the
\* greatest cell bottom, else unassigned; the first cell's top and the last
\* cell's bottom are that least top and greatest bottom; every unassigned
\* span overlaps the grid's vertical extent and no header span does
C18_HeaderFooterUnassigned ==
  (Classified /\ grid_data.all_grid_cells # <<>>) =>
    LET cells == grid_data.all_grid_cells
        cr == classification_result
        top == Pt(GridTop(cells))
        bottom == Pt(GridBottom(cells))
    IN /\ cells[1].bbox[2] = GridTop(cells)
       /\ cells[Len(cells)].bbox[4] = GridBottom(cells)
       /\ \A n \in DOMAIN all_text_spans :
            LET span == all_text_spans[n]
            IN CellsAround(span, cells) = {} =>
                 /\ span \in Range(cr.header_spans) <=> span.y1 < top
                 /\ span \in Range(cr.footer_spans)
                      <=> (span.y1 >= top /\ span.y0 > bottom)
                 /\ span \in Range(cr.unassigned_spans)
                      <=> (span.y1 >= top /\ span.y0 <= bottom)
       /\ \A n \in DOMAIN cr.unassigned_spans :
            /\ cr.unassigned_spans[n].y0 <= bottom
            /\ cr.unassigned_spans[n].y1 >= top
       /\ \A n \in DOMAIN cr.header_spans : cr.header_spans[n].y1 < top

\* a span no cell claims whose y1 is the grid's top: unassigned
C18_Witness ==
  /\ Classified
  /\ grid_data.all_grid_cells # <<>>
  /\ \E n \in DOMAIN classification_result.unassigned_spans :
       LET span == classification_result.unassigned_spans[n]
       IN /\ span.y1 = Pt(GridTop(grid_data.all_grid_cells))
          /\ CellsAround(span, grid_data.all_grid_cells) = {}

SeparatorRecorded == GridLinesSet /\ grid_data.footer_separator # NoSeparator

\* the horizontal segments a grid line at the rounded y is made of: those of
\* width between 100 and 200, the separator left out
MembersAt(y, separator) ==
  {l \in Range(HorizontalLines(rectangles_data)) :
     /\ l # separator
     /\ Pt(100) < l.width /\ l.width < Pt(200)
     /\ PyRound(l.y) = y}

\* wider than 500, and no horizontal grid line has it as a member
SeparatorApart(separator) ==
  /\ separator.width > Pt(500)
  /\ \A n \in DOMAIN grid_data.main_horizontal :
       LET line == grid_data.main_horizontal[n]
           members == MembersAt(line.y, separator)
       IN /\ members # {}
          /\ \A l \in members : line.x0 <= l.x0 /\ l.x1 <= line.x1
          /\ \E l \in members : line.x0 = l.x0
          /\ \E l \in members : line.x1 = l.x1

TextsInReadingOrder(spans) == Texts(StableSort(spans, KeysReading(spans)))

\* C20: every cell with at least 3 spans has its card whether or not an
\* identifier was found in its text: an exception is raised only before the
\* page's text is read, never while the cards are built, and the n-th such
\* cell's card has card_number n, the cell's bbox, row and col, the
\* cell's texts in reading order and the number of its spans, the same with an
\* identifier and without; without one, epic_number and part_number are null
C20_MissingIdentifierKeepsCard ==
  /\ pc = "except" => (all_text_spans = <<>> /\ final_cards = <<>>)
  /\ CardsBuilt =>
       LET ca == classification_result.card_assignments
           with == CardCells(grid_data.all_grid_cells, ca)
       IN /\ Len(final_cards) = Len(with)
          /\ \A n \in DOMAIN final_cards :
               LET card == final_cards[n]
                   spans == SpansInCell(ca, with[n].cell_id)
               IN /\ card.card_number = n
                  /\ card.bbox = with[n].bbox
                  /\ card.row = with[n].row
                  /\ card.col = with[n].col
                  /\ card.raw_content = TextsInReadingOrder(spans)
                  /\ card.text_spans_count = Len(spans)
                  /\ card.epic_number = None => card.part_number = None

\* a page with two cards, the first with an identifier and the second without
C20_Witness ==
  /\ CardsBuilt
  /\ Len(final_cards) = 2
  /\ final_cards[1].epic_number # None
  /\ final_cards[2].epic_number = None
  /\ final_cards[2].part_number = None
  /\ final_cards[2].text_spans_count = 3

\* a step keeps every entry of a map and adds at most the entry of the page
\* being handled
OnlyPageAdded(map, map1) ==
  /\ DOMAIN map \subseteq DOMAIN map1
  /\ DOMAIN map1 \subseteq DOMAIN map \cup {Str(page_num)}
  /\ \A k \in DOMAIN map : map1[k] = map[k]

\* C21: handling page p writes only the entries keyed str(p) of headers,
\* footers, cards and unassigned; an entry once recorded is never changed
\* again, and no page is taken up a second time
C21_AppendOnlyPages ==
  [][/\ OnlyPageAdded(master_data.headers, master_data'.headers)
     /\ OnlyPageAdded(master_data.footers, master_data'.footers)
     /\ OnlyPageAdded(master_data.cards, master_data'.cards)
     /\ OnlyPageAdded(master_data.unassigned, master_data'.unassigned)
     /\ page_num' >= page_num
     /\ pc' = "read" => Str(page_num') \notin DOMAIN master_data'.headers]_vars

\* a failed page's empty entry still in place after a later page with header
\* text was recorded
C21_Witness ==
  /\ pc = "done"
  /\ DOMAIN master_data.headers = {Str(1), Str(2)}
  /\ Len(pdf) = 2
  /\ pdf[1].corrupt
  /\ master_data.headers[Str(1)] = <<>>
  /\ master_data.headers[Str(2)] # <<>>


\* ---------------------------------------------------------------- C22
\* a key added to a map is the key of a page after every page already there
InsertedAscending(map, map1) ==
  \A k \in DOMAIN map1 \ DOMAIN map :
    \A j \in DOMAIN map : IntOf(j) < IntOf(k)

CardNumbersAscending(cards) ==
  \A i \in 1..(Len(cards) - 1) : cards[i].card_number < cards[i + 1].card_number

AllCountersZero ==
  /\ master_data.summary.total_pages_processed = 0
  /\ master_data.summary.total_cards_found = 0
  /\ master_data.summary.pages_with_cards = 0
  /\ master_data.summary.pages_without_cards = 0

\* C22: for every start_page and end_page the run terminates; the k-th
\* attempt is of page start_page + k - 1, so each page of the inclusive range
\* is attempted exactly once in strictly ascending order, and the returned
\* maps hold exactly the pages of the range; keys enter the four maps in
\* ascending page order; each page's cards are in ascending card_number
\* order; for an empty range the maps are empty and all counters are 0
C22_TerminatesInOrder ==
  /\ <>(pc = "done")
  /\ [](pc = "done" =>
          /\ DOMAIN master_data.headers = PageKeys(start_page..end_page)
          /\ DOMAIN master_data.footers = PageKeys(start_page..end_page)
          /\ DOMAIN master_data.cards = PageKeys(start_page..end_page)
          /\ DOMAIN master_data.unassigned = PageKeys(start_page..end_page)
          /\ start_page > end_page =>
               (master_data.cards = <<>> /\ AllCountersZero))
  /\ [](\A k \in DOMAIN master_data.cards :
          CardNumbersAscending(master_data.cards[k]))
  /\ [][/\ InsertedAscending(master_data.headers, master_data'.headers)
        /\ InsertedAscending(master_data.footers, master_data'.footers)
        /\ InsertedAscending(master_data.cards, master_data'.cards)
        /\ InsertedAscending(master_data.unassigned, master_data'.unassigned)
        /\ (pc = "loop" /\ pc' = "read") =>
             /\ page_num' \in start_page..end_page
             /\ page_num' = start_page + Cardinality(DOMAIN master_data'.headers)]_vars

\* a run over two pages returned although neither page could be read
C22_Witness ==
  /\ pc = "done"
  /\ start_page = 1
  /\ end_page = 2
  /\ \A p \in 1..2 : ~PageReadable(p)
  /\ DOMAIN master_data.cards = {Str(1), Str(2)}
  /\ master_data.summary.total_pages_processed = 0

\* ---------------------------------------------------------------- C23
\* the vertical segments a grid line at the rounded x is made of: those
\* higher than 50
RisersAt(x) ==
  {l \in Range(VerticalLines(rectangles_data)) :
     l.height > Pt(50) /\ PyRound(l.x) = x}

\* the line's extent is the union of its members' extents
SpansMembersH(line, members) ==
  /\ members # {}
  /\ \A l \in members : line.x0 <= l.x0 /\ l.x1 <= line.x1
  /\ \E l \in members : line.x0 = l.x0
  /\ \E l \in members : line.x1 = l.x1

SpansMembersV(line, members) ==
  /\ members # {}
  /\ \A l \in members : line.y0 <= l.y0 /\ l.y1 <= line.y1
  /\ \E l \in members : line.y0 = l.y0
  /\ \E l \in members : line.y1 = l.y1

\* C23: the horizontal grid lines have pairwise distinct y in strictly
\* ascending order and the vertical grid lines pairwise distinct x in strictly
\* ascending order; the segments sharing a rounded coordinate are one line,
\* from the least start to the greatest end of its members; every grid cell
\* has strictly positive width and height
C23_GridLinesAscending ==
  GridLinesSet =>
    LET mh == grid_data.main_horizontal
        mv == grid_data.main_vertical
    IN /\ \A i, j \in DOMAIN mh : i < j => mh[i].y < mh[j].y
       /\ \A i, j \in DOMAIN mv : i < j => mv[i].x < mv[j].x
       /\ \A n \in DOMAIN mh :
            SpansMembersH(mh[n], MembersAt(mh[n].y, grid_data.footer_separator))
       /\ \A n \in DOMAIN mv : SpansMembersV(mv[n], RisersAt(mv[n].x))
       /\ \A l \in Range(HorizontalLines(rectangles_data)) :
            (Pt(100) < l.width /\ l.width < Pt(200)) =>
              Cardinality({n \in DOMAIN mh : mh[n].y = PyRound(l.y)}) = 1
       /\ \A l \in Range(VerticalLines(rectangles_data)) :
            l.height > Pt(50) =>
              Cardinality({n \in DOMAIN mv : mv[n].x = PyRound(l.x)}) = 1
       /\ \A c \in DOMAIN grid_data.all_grid_cells :
            LET bbox == grid_data.all_grid_cells[c].bbox
            IN bbox[1] < bbox[3] /\ bbox[2] < bbox[4]

\* a grid whose top line and second riser are each made of two segments that
\* round to the same coordinate
C23_Witness ==
  /\ pc = "classify"
  /\ grid_data.all_grid_cells # <<>>
  /\ \E n \in DOMAIN grid_data.main_horizontal :
       /\ Cardinality(MembersAt(grid_data.main_horizontal[n].y,
                                grid_data.footer_separator)) = 2
       /\ grid_data.main_horizontal[n].x1 = Pt(215)
  /\ \E n \in DOMAIN grid_data.main_vertical :
       /\ Cardinality(RisersAt(grid_data.main_vertical[n].x)) = 2
       /\ grid_data.main_vertical[n].y1 = Pt(300)

\* ---------------------------------------------------------------- C24
\* a horizontal segment of width strictly between 100 and 200, or a vertical
\* segment higher than 50
ShapesGrid(rect) ==
  \/ /\ rect.height = 0
     /\ Pt(100) < rect.width /\ rect.width < Pt(200)
  \/ /\ rect.width = 0
     /\ rect.height > Pt(50)

\* the page's rectangles without those that are not such segments
OnlyShaping(rectangles) == SelectSeq(rectangles, ShapesGrid)

\* C24: the grid lines and grid cells of a page are those of the page with
\* every rectangle of nonzero area, every horizontal segment of width not
\* strictly between 100 and 200 and every vertical segment not higher than 50
\* removed, so adding or removing such rectangles leaves lines and cells
\* unchanged
C24_OnlyInBandSegmentsShapeGrid ==
  GridLinesSet =>
    LET bare == detect_grid_from_rectangles(OnlyShaping(rectangles_data))
    IN /\ grid_data.main_horizontal = bare.main_horizontal
       /\ grid_data.main_vertical = bare.main_vertical
       /\ grid_data.all_grid_cells = bare.all_grid_cells

\* a page with a grid, a rectangle of nonzero area and a footer rule that the
\* page without them would not record
C24_Witness ==
  /\ pc = "classify"
  /\ grid_data.all_grid_cells # <<>>
  /\ \E i \in DOMAIN rectangles_data : rectangles_data[i].area > 0
  /\ grid_data.footer_separator # NoSeparator
  /\ detect_grid_from_rectangles(OnlyShaping(rectangles_data)).footer_separator
       = NoSeparator

\* ---------------------------------------------------------------- C25
\* span j of the list is read before span i: it starts higher, or as high and
\* further left, or at the same point and is listed earlier
ReadBefore(spans, j, i) ==
  \/ spans[j].y0 < spans[i].y0
  \/ spans[j].y0 = spans[i].y0 /\ spans[j].x0 < spans[i].x0
  \/ spans[j].y0 = spans[i].y0 /\ spans[j].x0 = spans[i].x0 /\ j < i

\* the place of span i among the spans as read
ReadingPlace(spans, i) ==
  1 + Cardinality({j \in DOMAIN spans : ReadBefore(spans, j, i)})

\* the spans assigned to the cell a card carries the row and col of
SpansOfCard(card) ==
  LET cells == grid_data.all_grid_cells
      c == CHOOSE c \in DOMAIN cells :
             cells[c].row = card.row /\ cells[c].col = card.col
      ca == classification_result.card_assignments
  IN IF cells[c].cell_id \in DOMAIN ca THEN ca[cells[c].cell_id] ELSE <<>>

\* C25: a card's raw_content has one text for each span assigned to its cell
\* and no other, the text of a span standing at the span's place by y0, then
\* x0, then input order; text_spans_count is the length of raw_content and is
\* at least 3
C25_RawContentInReadingOrder ==
  CardsBuilt =>
    \A n \in DOMAIN final_cards :
      LET card == final_cards[n]
          spans == SpansOfCard(card)
      IN /\ Len(card.raw_content) = Len(spans)
         /\ \A i \in DOMAIN spans :
              card.raw_content[ReadingPlace(spans, i)] = spans[i].text
         /\ card.text_spans_count = Len(card.raw_content)
         /\ card.text_spans_count >= 3

\* a card of three spans: the one listed second reads first, and the other
\* two start at the same point and carry different texts
C25_Witness ==
  /\ CardsBuilt
  /\ \E n \in DOMAIN final_cards :
       LET spans == SpansOfCard(final_cards[n])
       IN /\ Len(spans) = 3
          /\ ReadBefore(spans, 2, 1)
          /\ spans[1].y0 = spans[3].y0 /\ spans[1].x0 = spans[3].x0
          /\ spans[1].text # spans[3].text
          /\ final_cards[n].raw_content
               = <<spans[2].text, spans[1].text, spans[3].text>>

\* ---------------------------------------------------------------- C26
\* the page's spans whose center the cell is the first to hold within its
\* tolerance
SpansHeldBy(c) ==
  SelectSeq(all_text_spans,
            LAMBDA sp : /\ c \in CellsAround(sp, grid_data.all_grid_cells)
                        /\ \A d \in CellsAround(sp, grid_data.all_grid_cells) :
                             c <= d)

TimesIn(texts, t) == Cardinality({i \in DOMAIN texts : texts[i] = t})

SameTexts(a, b) ==
  /\ Len(a) = Len(b)
  /\ \A t \in Range(a) \cup Range(b) : TimesIn(a, t) = TimesIn(b, t)

\* the cells a card may be the card of: those with its row and col
CellsOfCard(card) ==
  {c \in DOMAIN grid_data.all_grid_cells :
     /\ grid_data.all_grid_cells[c].row = card.row
     /\ grid_data.all_grid_cells[c].col = card.col}

RowMajorBefore(a, b) == a.row < b.row \/ (a.row = b.row /\ a.col < b.col)

\* C26: each grid cell has at most one card; a card carries the row, col and
\* bbox of one cell, and its texts are those of the spans that cell holds; of
\* two cards of a page the one with the smaller card_number has the
\* lexicographically smaller (row, col), and the cards are listed in
\* ascending card_number order, on the page and in the master document
C26_OneCardPerCellRowMajor ==
  /\ CardsBuilt =>
       LET cells == grid_data.all_grid_cells
       IN /\ \A c \in DOMAIN cells :
               Cardinality({n \in DOMAIN final_cards :
                              c \in CellsOfCard(final_cards[n])}) <= 1
          /\ \A n \in DOMAIN final_cards :
               /\ Cardinality(CellsOfCard(final_cards[n])) = 1
               /\ \A c \in CellsOfCard(final_cards[n]) :
                    /\ final_cards[n].bbox = cells[c].bbox
                    /\ SameTexts(final_cards[n].raw_content,
                                 Texts(SpansHeldBy(c)))
          /\ \A m, n \in DOMAIN final_cards :
               final_cards[m].card_number < final_cards[n].card_number
                 => RowMajorBefore(final_cards[m], final_cards[n])
          /\ CardNumbersAscending(final_cards)
  /\ \A k \in DOMAIN master_data.cards :
       /\ CardNumbersAscending(master_data.cards[k])
       /\ \A m, n \in DOMAIN master_data.cards[k] :
            master_data.cards[k][m].card_number < master_data.cards[k][n].card_number
              => RowMajorBefore(master_data.cards[k][m], master_data.cards[k][n])

\* a recorded page of at least four cells with two cards, the first in row 1
\* and column 2, the second in row 2 and column 1
C26_Witness ==
  /\ pc = "loop"
  /\ \E k \in DOMAIN master_data.cards :
       /\ Len(master_data.cards[k]) = 2
       /\ master_data.cards[k][1].row = 1 /\ master_data.cards[k][1].col = 2
       /\ master_data.cards[k][2].row = 2 /\ master_data.cards[k][2].col = 1

\* ---------------------------------------------------------------- C27
\* the master document has cards under the key, and they are the given array
IsMasterArray(key, cards) ==
  \E i \in DOMAIN cards_data :
    cards_data[i].key = key /\ cards_data[i].cards = cards

\* the files of this run that store pages
PageFiles == {f \in DOMAIN files : "pages" \in DOMAIN files[f]}

\* C27: the card array stored under a page, in a collective's bucket, in the
\* unassigned bucket and in every file written from them, is the master
\* document's card array of that page, card for card and field for field,
\* and no step of the run changes the master data
C27_RegroupingKeepsCards ==
  /\ [](cpc # "start" =>
          /\ \A c \in DOMAIN collective_cards :
               \A n \in DOMAIN collective_cards[c] :
                 IsMasterArray(Str(n), collective_cards[c][n])
          /\ \A n \in DOMAIN unassigned_pages :
               IsMasterArray(Str(n), unassigned_pages[n])
          /\ \A f \in PageFiles :
               \A k \in DOMAIN files[f].pages :
                 IsMasterArray(k, files[f].pages[k]))
  /\ [][cards_data' = cards_data /\ page_assignments' = page_assignments]_vars

\* a finished run that wrote a collective's file and the unassigned file,
\* each storing a page with cards, the two pages' arrays different
C27_Witness ==
  /\ cpc = "done"
  /\ UnassignedFile \in PageFiles
  /\ \E f \in PageFiles \ {UnassignedFile} :
       \E k \in DOMAIN files[f].pages, u \in DOMAIN files[UnassignedFile].pages :
         /\ files[f].pages[k] # <<>>
         /\ files[UnassignedFile].pages[u] # <<>>
         /\ files[f].pages[k] # files[UnassignedFile].pages[u]

=========================================================================
